---- MODULE Spec2Model ----
(***************************************************************************)
(* Model of the smgrep incremental sync engine (src/src/sync.rs), its      *)
(* meta store (src/src/meta.rs) and the per-repository index lock          *)
(* (src/src/index_lock.rs).                                                *)
(*                                                                         *)
(* File contents are abstracted to small integers; compute_hash is an      *)
(* injective tagging of the content (SHA-256 is treated as collision       *)
(* free).  The vector store is a bag of rows: insert_batch appends rows,   *)
(* delete_files removes the rows of the given paths.  Every fallible call  *)
(* (store, embedder, chunker, meta save) may succeed or fail.              *)
(***************************************************************************)
EXTENDS Integers, Sequences, FiniteSets, Bags, TLC

\* ---------------------------------------------------------------- bounds
MaxContent == 2        \* distinct file contents 1..MaxContent
MaxBatch == 2          \* config::batch_size() ranges over 1..MaxBatch
MaxRuns == 3           \* initial_sync calls per behaviour
ConcCalls == 2         \* initial_sync calls when two callers run concurrently
MaxEdits == 1          \* file edits / removals / permission flips per behaviour
MaxHolds == 2          \* IndexLock acquisitions per process
MaxChunks == 3         \* ordinary chunks of one file
MaxInFlight == 2       \* frames written to a stream and not yet read
MaxEmbedCalls == 2     \* compute_hybrid / encode_query calls per thread
MaxResults == 3        \* length of a result list given to deduplicate / apply_per_file_limit
MaxK == 2              \* per-file limits 0..MaxK
MaxBoosted == 2        \* length of a result list given to apply_structural_boost
MaxHits == 3           \* results the store holds for a query
MaxLimit == 2          \* search limits 0..MaxLimit

\* SAVE_INTERVAL is 25 in the source; it is scaled to the size of the
\* modelled repository (three files) so that intermediate saves happen.
SAVE_INTERVAL == 2

\* ------------------------------------------------------------ universes
Paths == {"a", "b", "c"}
\* order in which FileSystem::get_files yields the paths
FileOrder == <<"a", "b", "c">>
Contents == 1..MaxContent
Absent == 0
NoHash == 0
Procs == {1, 2}
StoreIds == {"s1", "s2"}

\* --------------------------------------------------------- pure helpers
compute_hash(content) == 100 + content

Hashes == {compute_hash(c) : c \in Contents}

\* Chunker::chunk, abstracted to the number of ordinary chunks it returns
\* for a content (content 1 is a file with no ordinary chunk).
ChunkCount(content) == content - 1

SeqToSet(s) == {s[i] : i \in 1..Len(s)}

RECURSIVE FilterSeq(_, _)
FilterSeq(s, keep) ==
   IF s = <<>> THEN <<>>
   ELSE IF Head(s) \in keep THEN <<Head(s)>> \o FilterSeq(Tail(s), keep)
        ELSE FilterSeq(Tail(s), keep)

\* ----------------------------------------------------------- meta store
\* MetaStore { files, hashes, dirty }: a missing key is NoHash.
EmptyMeta ==
   [files |-> [p \in Paths |-> NoHash], hashes |-> [p \in Paths |-> NoHash],
    dirty |-> FALSE]

NoFile == [files |-> <<>>, hashes |-> <<>>]

\* MetaStore::load: an absent file gives the empty store; dirty is reset.
MetaLoad(onDisk) ==
   IF onDisk = NoFile THEN EmptyMeta
   ELSE [files |-> onDisk.files, hashes |-> onDisk.hashes, dirty |-> FALSE]

\* MetaStore::save: files and hashes are serialized, dirty is skipped.
MetaSave(m) == [files |-> m.files, hashes |-> m.hashes]

get_hash(m, p) == IF m.files[p] # NoHash THEN m.files[p] ELSE m.hashes[p]

set_hash(m, p, h) ==
   IF m.files[p] # NoHash
   THEN [m EXCEPT !.files[p] = h, !.dirty = TRUE]
   ELSE [m EXCEPT !.files[p] = h, !.hashes[p] = NoHash, !.dirty = TRUE]

MetaRemove(m, p) ==
   [m EXCEPT !.files[p] = NoHash, !.hashes[p] = NoHash, !.dirty = TRUE]

all_paths(m) == {p \in Paths : m.files[p] # NoHash} \cup {p \in Paths : m.hashes[p] # NoHash}

\* MetaStore::all_paths as the iterator yields them: the keys of files,
\* then the keys of hashes.
all_paths_iter(m) ==
   SetToBag({p \in Paths : m.files[p] # NoHash})
   (+) SetToBag({p \in Paths : m.hashes[p] # NoHash})

\* MetaStore::set_meta; of FileMeta { hash, mtime } the model keeps the hash.
set_meta(m, p, h, mtime) ==
   [m EXCEPT !.files[p] = h, !.hashes[p] = NoHash, !.dirty = TRUE]

\* The text of each path, for str::starts_with.
PathText == [a |-> <<"d", "/", "x">>, b |-> <<"d", "2", "/", "y">>, c |-> <<"e">>]

Prefixes == {<<>>, <<"d">>, <<"d", "/">>, <<"e">>, <<"e", "/">>}

starts_with(text, prefix) ==
   /\ Len(prefix) <= Len(text)
   /\ \A i \in 1..Len(prefix) : text[i] = prefix[i]

delete_by_prefix_FilesOnly(m, prefix) ==
   [files |-> [p \in Paths |->
                 IF starts_with(PathText[p], prefix) THEN NoHash ELSE m.files[p]],
    hashes |-> m.hashes,
    dirty |-> TRUE]

\* MetaStore::delete_by_prefix
delete_by_prefix(m, prefix) ==
   [files |-> [p \in Paths |->
                 IF starts_with(PathText[p], prefix) THEN NoHash ELSE m.files[p]],
    hashes |-> [p \in Paths |->
                 IF starts_with(PathText[p], prefix) THEN NoHash ELSE m.hashes[p]],
    dirty |-> TRUE]

RECURSIVE MetaRemoveAll(_, _)
MetaRemoveAll(m, ps) ==
   IF ps = {} THEN m
   ELSE LET p == CHOOSE q \in ps : TRUE
        IN MetaRemoveAll(MetaRemove(m, p), ps \ {p})

\* --------------------------------------------------------- vector store
\* Rows of the store table.  insert_batch appends rows, delete_files removes
\* every row of the given paths, get_file_hashes lists one hash per path.
insert_batch(st, records) == st (+) records

delete_files(st, ps) ==
   LET keep == {r \in DOMAIN st : r.path \notin ps}
   IN [r \in keep |-> st[r]]

RowsOf(st, p) == {r \in DOMAIN st : r.path = p}

\* The maps get_file_hashes may return: for a path with rows, the hash of
\* one of its rows (the last one collected wins, in no specified order).
get_file_hashes(st) ==
   {m \in [Paths -> Hashes \cup {NoHash}] :
      \A p \in Paths :
         IF RowsOf(st, p) = {} THEN m[p] = NoHash
         ELSE \E r \in RowsOf(st, p) : m[p] = r.hash}

\* ----------------------------------------------------------- sync engine
\* The PreparedChunk / VectorRecord list of one file: the anchor at
\* chunk_index 0 and the ordinary chunks at idx + 1.
PreparedChunks_ZeroBased(path, hash, nchunks) ==
   <<[id |-> <<path, "anchor">>, path |-> path, hash |-> hash,
      chunk_index |-> 0, is_anchor |-> TRUE]>>
   \o [i \in 1..nchunks |->
        [id |-> <<path, ToString(i - 1)>>, path |-> path, hash |-> hash,
         chunk_index |-> i - 1, is_anchor |-> FALSE]]

PreparedChunks(path, hash, nchunks) ==
   <<[id |-> <<path, "anchor">>, path |-> path, hash |-> hash,
      chunk_index |-> 0, is_anchor |-> TRUE]>>
   \o [i \in 1..nchunks |->
        [id |-> <<path, ToString(i - 1)>>, path |-> path, hash |-> hash,
         chunk_index |-> (i - 1) + 1, is_anchor |-> FALSE]]

RECURSIVE SeqToBag(_)
SeqToBag(s) == IF s = <<>> THEN EmptyBag ELSE SetToBag({Head(s)}) (+) SeqToBag(Tail(s))

RECURSIVE Flatten(_)
Flatten(batch) == IF batch = <<>> THEN <<>> ELSE Head(batch).chunks \o Flatten(Tail(batch))

RECURSIVE SetHashes(_, _)
SetHashes(m, batch) ==
   IF batch = <<>> THEN m
   ELSE SetHashes(set_hash(m, Head(batch).path, Head(batch).hash), Tail(batch))

BatchPaths(batch) == {batch[i].path : i \in 1..Len(batch)}

VARIABLES
   disk,        \* path -> content, Absent when the file does not exist
   unreadable,  \* paths whose std::fs::read fails
   store,       \* bag of vector records
   metaDisk,    \* the persisted meta JSON (NoFile before the first save)
   sync,        \* per caller: the locals of its initial_sync call
   callers,     \* processes that call initial_sync in this configuration
   runs,        \* initial_sync calls started so far
   edits,       \* repository changes made so far
   quiet,       \* last event was a completed non-dry-run sync, nothing changed since
   retry,       \* files of the batch whose embedding failed in the last aborted sync
   lockHolders, \* store id -> processes holding the flock on <store_id>.lock
   lockPc,      \* per process: position around an IndexLock scope
   lockId,      \* per process: store id of the lock it waits for or holds
   holds,       \* per process: number of acquisitions so far
   listening,   \* the daemon's socket of the repository accepts connections
   dsPc,        \* position of the client inside try_daemon_search
   dsSpawns,    \* spawn_daemon calls made by the client
   dsAttempts,  \* connects made inside the polling loop
   dsSlept,     \* milliseconds the client has slept
   dsConnected, \* connect that gave the stream: "none", "first" or "poll"
   dsSent,      \* search requests sent
   dsResult,    \* "pending", then "some", "none" or "err"
   sbuf,        \* SocketBuffer.buf of the endpoint
   wire,        \* bytes written to the stream and not yet read
   ipcLog,      \* the messages whose frames are on the wire, oldest first
   ipcLast,     \* the last send or recv: its message, bytes and result
   model,       \* CandleEmbedder.model: "None" or "Some"
   writer,      \* the threads holding the write lock of model
   readers,     \* the threads holding a read lock of model
   embPc,       \* per thread: position inside compute_hybrid / encode_query
   embCalls,    \* per thread: calls started
   embLate,     \* per thread: its call started after a successful load
   loads,       \* successful load_model calls whose result was stored
   everReady,   \* a load has succeeded
   rkInput,     \* the result list given to a ranking function
   rkOp,        \* the ranking function applied: "none" before the call
   rkK,         \* the per-file limit of the call
   rkOut,       \* what the call gave: a panic, or the returned list
   seHits,      \* the store's ranked results for the query
   se,          \* the locals of the SearchEngine::search call
   mt,          \* a MetaStore in memory
   mtDisk,      \* the meta JSON file of its store id
   mtExpect,    \* path -> the hash most recently set for it, NoHash once removed
   mtLast,      \* the last MetaStore call: "none" before the first load
   mtOps,       \* MetaStore calls made so far
   cbBits,      \* significand bits of the arithmetic of the scoring functions
   cbQuery,     \* the query matrix: its rows
   cbBytes,     \* the stored colbert bytes of a record
   cbScale,     \* its colbert_scale
   cbDim,       \* the token dimension
   cbOut,       \* the scores computed so far
   ckChunk,     \* the chunk, or the whole file, given to a chunking function
   ckParse,     \* what the grammar and the parser give for the file
   ckOp,        \* the chunking function applied: "none" before the call
   ckOut        \* the chunks it returned

syncVars == <<disk, unreadable, store, metaDisk, sync, callers, runs, edits, quiet, retry>>
lockVars == <<lockHolders, lockPc, lockId, holds>>
spawnVars == <<listening, dsPc, dsSpawns, dsAttempts, dsSlept, dsConnected, dsSent, dsResult>>

ipcVars == <<sbuf, wire, ipcLog, ipcLast>>
embedVars == <<model, writer, readers, embPc, embCalls, embLate, loads, everReady>>
rankVars == <<rkInput, rkOp, rkK, rkOut>>
searchVars == <<seHits, se>>
metaVars == <<mt, mtDisk, mtExpect, mtLast, mtOps>>

\* The library components exercised on their own.
colbertVars == <<cbBits, cbQuery, cbBytes, cbScale, cbDim, cbOut>>
chunkVars == <<ckChunk, ckParse, ckOp, ckOut>>
libVars == <<metaVars, colbertVars, chunkVars>>

\* The components beside the sync engine and the index lock.
compVars == <<spawnVars, ipcVars, embedVars, rankVars, searchVars, libVars>>

vars == <<syncVars, lockVars, compVars>>

\* Locals of a call that is not running.
IdleSync ==
   [pc |-> "idle", dry_run |-> FALSE, batch_size |-> 1, meta_store |-> EmptyMeta,
    files |-> <<>>, deleted_paths |-> {}, store_hashes |-> [p \in Paths |-> NoHash],
    hash_results |-> <<>>, changed_files |-> {}, embed_queue |-> <<>>,
    since_save |-> 0, processed |-> 0, indexed |-> 0, skipped |-> 0, deleted |-> 0,
    \* observation of the call: store and meta calls made, failure met
    n_delete |-> 0, n_insert |-> 0, n_save |-> 0, n_index |-> 0,
    inserted |-> {}, saved |-> {}, saved_meta |-> NoFile,
    failed_batch |-> {}, fail |-> "none", meta_before |-> NoFile,
    store_before |-> EmptyBag, started_quiet |-> FALSE, retry_at_start |-> {},
    \* the last SyncProgress given to the callback, and whether no
    \* invocation so far carried a smaller counter than the one before it
    progress |-> [processed |-> 0, indexed |-> 0], monotone |-> TRUE]

InitDisks == {d \in [Paths -> {Absent, 1}] : d["a"] # Absent}

InitCommon ==
   /\ disk \in InitDisks
   /\ unreadable = {}
   /\ store = EmptyBag
   /\ metaDisk = NoFile
   /\ sync = [p \in Procs |-> IdleSync]
   /\ quiet = FALSE
   /\ retry = {}
   /\ lockHolders = [s \in StoreIds |-> {}]
   /\ lockPc = [p \in Procs |-> "out"]
   /\ lockId = [p \in Procs |-> "s1"]
   /\ holds = [p \in Procs |-> 0]

\* try_daemon_search has not been called.
SpawnIdle ==
   /\ listening = FALSE
   /\ dsPc = "idle"
   /\ dsSpawns = 0
   /\ dsAttempts = 0
   /\ dsSlept = 0
   /\ dsConnected = "none"
   /\ dsSent = 0
   /\ dsResult = "pending"

NoIpc == [op |-> "none", msg |-> "none", bytes |-> <<>>, ok |-> TRUE,
          value |-> "none", consumed |-> 0, declared |-> 0, buf_before |-> <<>>]

\* SocketBuffer::new(), nothing written to the stream.
IpcIdle ==
   /\ sbuf = <<>>
   /\ wire = <<>>
   /\ ipcLog = <<>>
   /\ ipcLast = NoIpc

\* CandleEmbedder::new(): no model, nobody at the lock.
EmbedNew ==
   /\ model = "None"
   /\ writer = {}
   /\ readers = {}
   /\ embPc = [p \in Procs |-> "idle"]
   /\ embCalls = [p \in Procs |-> 0]
   /\ embLate = [p \in Procs |-> FALSE]
   /\ loads = 0
   /\ everReady = FALSE

NoOutput == [panic |-> FALSE, list |-> <<>>]

\* No ranking call.
RankIdle ==
   /\ rkInput = <<>>
   /\ rkOp = "none"
   /\ rkK = 0
   /\ rkOut = NoOutput

NotAsked == -1

NoResponse == [results |-> <<>>, status |-> "Ready", progress |-> <<>>]

\* Locals of a search call that has not started.
IdleSearch ==
   [pc |-> "idle", limit |-> 0, per_file_limit |-> 0, encoded |-> FALSE,
    asked |-> NotAsked, store_response |-> NoResponse, fail |-> "none",
    response |-> NoResponse]

SearchIdle ==
   /\ seHits = <<>>
   /\ se = IdleSearch

\* No MetaStore has been loaded outside initial_sync.
MetaIdle ==
   /\ mt = EmptyMeta
   /\ mtDisk = NoFile
   /\ mtExpect = [p \in Paths |-> NoHash]
   /\ mtLast = "none"
   /\ mtOps = 0

NoScores ==
   [quantized |-> <<>>, dequantized |-> <<>>,
    doc |-> [nrows |-> 0, ncols |-> 0, data |-> <<>>]]

\* No scoring call.
ColbertIdle ==
   /\ cbBits = 0
   /\ cbQuery = <<>>
   /\ cbBytes = <<>>
   /\ cbScale = 0
   /\ cbDim = 0
   /\ cbOut = NoScores

\* No grammar for the path.
NoTree == [language |-> "none", children |-> <<>>]

NoChunk == [content |-> <<>>, start_line |-> 0, end_line |-> 0, chunk_type |-> "Block"]

\* No chunking call.
ChunkIdle ==
   /\ ckChunk = NoChunk
   /\ ckParse = NoTree
   /\ ckOp = "none"
   /\ ckOut = <<>>

LibIdle == MetaIdle /\ ColbertIdle /\ ChunkIdle

CompsIdle == SpawnIdle /\ IpcIdle /\ EmbedNew /\ RankIdle /\ SearchIdle /\ LibIdle

Init == InitCommon /\ CompsIdle /\ callers = {1} /\ runs = 0 /\ edits = 0

Running(p) == sync[p].pc \notin {"idle", "done", "failed"}

\* lines 62-69: meta_paths.difference(&files_on_disk)
DeletedPaths(meta, files_on_disk) == all_paths(meta) \ files_on_disk

\* lines 71 and 116: `!dry_run && !paths.is_empty()`
ShouldDelete_IgnoresDryRun(dry_run, paths) == paths # {}

ShouldDelete(dry_run, paths) == ~dry_run /\ paths # {}

\* lines 89-92: meta's hash, falling back to the store's hash for the path
ExistingHash(meta, store_hashes, p) ==
   IF get_hash(meta, p) # NoHash THEN get_hash(meta, p) ELSE store_hashes[p]

\* line 93: existing_hash != Some(hash)
NeedsIndexing_Always(existing_hash, hash) == TRUE

NeedsIndexing_OnlyKnown(existing_hash, hash) == existing_hash # NoHash /\ existing_hash # hash

NeedsIndexing(existing_hash, hash) == existing_hash # hash

\* lines 82-97 and the flatten of line 123: one entry per file that could
\* be read, in file order; a file whose read fails yields None and is dropped.
RECURSIVE HashResults(_, _, _, _, _)
HashResults(files, dsk, unread, meta, store_hashes) ==
   IF files = <<>> THEN <<>>
   ELSE LET path == Head(files)
            rest == HashResults(Tail(files), dsk, unread, meta, store_hashes)
        IN IF path \in unread \/ dsk[path] = Absent THEN rest
           ELSE LET hash == compute_hash(dsk[path])
                IN <<[path |-> path, hash |-> hash, content |-> dsk[path],
                      needs_indexing |->
                         NeedsIndexing(ExistingHash(meta, store_hashes, path), hash)]>>
                   \o rest

ChangedFiles_MetaOnly(hash_results, meta, store_hashes) ==
   {hash_results[i].path : i \in
      {j \in 1..Len(hash_results) :
         /\ hash_results[j].needs_indexing
         /\ get_hash(meta, hash_results[j].path) # NoHash}}

\* lines 99-114: files needing indexing that had a hash in meta or store
ChangedFiles(hash_results, meta, store_hashes) ==
   {hash_results[i].path : i \in
      {j \in 1..Len(hash_results) :
         /\ hash_results[j].needs_indexing
         /\ (get_hash(meta, hash_results[j].path) # NoHash
             \/ store_hashes[hash_results[j].path] # NoHash)}}

process_embed_batch_CountChunks(st, meta, batch, outcome) ==
   IF Flatten(batch) = <<>> THEN [ok |-> TRUE, store |-> st, meta |-> meta, n |-> 0,
                                  inserted |-> FALSE]
   ELSE IF outcome = "ok"
        THEN [ok |-> TRUE, store |-> insert_batch(st, SeqToBag(Flatten(batch))),
              meta |-> SetHashes(meta, batch), n |-> Len(Flatten(batch)),
              inserted |-> TRUE]
        ELSE [ok |-> FALSE, store |-> st, meta |-> meta, n |-> 0, inserted |-> FALSE]

process_embed_batch_HashFirst(st, meta, batch, outcome) ==
   IF outcome = "ok"
   THEN [ok |-> TRUE, store |-> insert_batch(st, SeqToBag(Flatten(batch))),
         meta |-> SetHashes(meta, batch), n |-> Len(batch), inserted |-> TRUE]
   ELSE [ok |-> FALSE, store |-> st, meta |-> SetHashes(meta, batch), n |-> 0,
         inserted |-> FALSE]

\* process_embed_batch, lines 249-301.  outcome is the result of the two
\* fallible calls: "ok", "embed" (compute_hybrid fails) or "insert"
\* (insert_batch fails).  Meta hashes are set only after the insert.
process_embed_batch(st, meta, batch, outcome) ==
   IF Flatten(batch) = <<>> THEN [ok |-> TRUE, store |-> st, meta |-> meta, n |-> 0,
                                  inserted |-> FALSE]
   ELSE IF outcome = "ok"
        THEN [ok |-> TRUE, store |-> insert_batch(st, SeqToBag(Flatten(batch))),
              meta |-> SetHashes(meta, batch), n |-> Len(batch), inserted |-> TRUE]
        ELSE [ok |-> FALSE, store |-> st, meta |-> meta, n |-> 0, inserted |-> FALSE]

\* What an error return of initial_sync leaves behind: the call's locals
\* are dropped, nothing is written.
AbortMetaDisk(onDisk, meta) == onDisk

\* line 209: since_save >= SAVE_INTERVAL
SaveDue(since_save) == since_save >= SAVE_INTERVAL

NextPc(rest) == IF rest = <<>> THEN "drain" ELSE "loop"

\* lines 126-133, 214-221, 240-242: callback(SyncProgress { processed, indexed, .. })
SyncProgress(processed, indexed) == [processed |-> processed, indexed |-> indexed]

NeverDecreased(me, processed, indexed) ==
   /\ me.monotone
   /\ processed >= me.progress.processed
   /\ indexed >= me.progress.indexed

\* An error return (the `?` operator) at any point of initial_sync.
Abort(p, kind, batch, meta, onDisk) ==
   /\ sync' = [sync EXCEPT ![p].pc = "failed", ![p].fail = kind,
                           ![p].failed_batch = BatchPaths(batch),
                           ![p].meta_store = meta]
   /\ metaDisk' = AbortMetaDisk(onDisk, meta)
   /\ quiet' = IF sync[p].dry_run THEN quiet ELSE FALSE
   /\ retry' = IF sync[p].dry_run THEN retry
               ELSE IF kind = "embed" THEN BatchPaths(batch) ELSE {}

\* initial_sync, lines 52-69: load meta, enumerate files, stale paths.
Start(p) ==
   /\ p \in callers
   /\ sync[p].pc = "idle"
   /\ runs < MaxRuns
   /\ \E dry \in BOOLEAN, bs \in 1..MaxBatch :
        LET meta == MetaLoad(metaDisk)
            files == FilterSeq(FileOrder, {q \in Paths : disk[q] # Absent})
            deleted_paths == DeletedPaths(meta, SeqToSet(files))
        IN sync' = [sync EXCEPT ![p] =
              [IdleSync EXCEPT !.pc = "delete_stale", !.dry_run = dry,
                 !.batch_size = bs, !.meta_store = meta, !.files = files,
                 !.deleted_paths = deleted_paths,
                 !.deleted = Cardinality(deleted_paths),
                 !.saved_meta = metaDisk, !.meta_before = metaDisk,
                 !.store_before = store, !.started_quiet = quiet,
                 !.retry_at_start = retry]]
   /\ runs' = runs + 1
   /\ UNCHANGED <<disk, unreadable, store, metaDisk, callers, edits, quiet, retry>>
   /\ UNCHANGED <<lockVars, compVars>>

\* lines 71-76: delete the rows and meta entries of vanished files.
DeleteStale(p) ==
   /\ sync[p].pc = "delete_stale"
   /\ LET me == sync[p]
      IN IF ShouldDelete(me.dry_run, me.deleted_paths)
         THEN \E ok \in BOOLEAN :
                 IF ok
                 THEN /\ store' = delete_files(store, me.deleted_paths)
                      /\ sync' = [sync EXCEPT ![p].pc = "get_hashes",
                            ![p].n_delete = me.n_delete + 1,
                            ![p].meta_store = MetaRemoveAll(me.meta_store, me.deleted_paths)]
                      /\ UNCHANGED <<metaDisk, quiet, retry>>
                 ELSE /\ Abort(p, "delete", <<>>, me.meta_store, metaDisk)
                      /\ UNCHANGED store
         ELSE /\ sync' = [sync EXCEPT ![p].pc = "get_hashes"]
              /\ UNCHANGED <<store, metaDisk, quiet, retry>>
   /\ UNCHANGED <<disk, unreadable, callers, runs, edits>>
   /\ UNCHANGED <<lockVars, compVars>>

\* lines 80-114: list the store's hashes, read and hash every file.
GetHashes(p) ==
   /\ sync[p].pc = "get_hashes"
   /\ LET me == sync[p]
      IN \E ok \in BOOLEAN :
            IF ok
            THEN \E store_hashes \in get_file_hashes(store) :
                   LET hr == HashResults(me.files, disk, unreadable, me.meta_store, store_hashes)
                   IN /\ sync' = [sync EXCEPT ![p].pc = "delete_changed",
                            ![p].store_hashes = store_hashes,
                            ![p].hash_results = hr,
                            ![p].changed_files = ChangedFiles(hr, me.meta_store, store_hashes)]
                      /\ UNCHANGED <<metaDisk, quiet, retry>>
            ELSE Abort(p, "hashes", <<>>, me.meta_store, metaDisk)
   /\ UNCHANGED <<disk, unreadable, store, callers, runs, edits>>
   /\ UNCHANGED <<lockVars, compVars>>

\* lines 116-118: delete the rows of files whose hash changed.
DeleteChanged(p) ==
   /\ sync[p].pc = "delete_changed"
   /\ LET me == sync[p]
      IN IF ShouldDelete(me.dry_run, me.changed_files)
         THEN \E ok \in BOOLEAN :
                 IF ok
                 THEN /\ store' = delete_files(store, me.changed_files)
                      /\ sync' = [sync EXCEPT ![p].pc = NextPc(me.hash_results),
                            ![p].n_delete = me.n_delete + 1]
                      /\ UNCHANGED <<metaDisk, quiet, retry>>
                 ELSE /\ Abort(p, "delete", <<>>, me.meta_store, metaDisk)
                      /\ UNCHANGED store
         ELSE /\ sync' = [sync EXCEPT ![p].pc = NextPc(me.hash_results)]
              /\ UNCHANGED <<store, metaDisk, quiet, retry>>
   /\ UNCHANGED <<disk, unreadable, callers, runs, edits>>
   /\ UNCHANGED <<lockVars, compVars>>

\* lines 123-198: one iteration of the file loop, up to the push onto
\* the embed queue.  chunker.chunk may fail, and `?` returns the error.
LoopFile(p) ==
   /\ sync[p].pc = "loop"
   /\ sync[p].hash_results # <<>>
   /\ LET me == sync[p]
          r == Head(me.hash_results)
          rest == Tail(me.hash_results)
          called == SyncProgress(me.processed + 1, me.indexed)
          mono == NeverDecreased(me, me.processed + 1, me.indexed)
      IN IF ~r.needs_indexing
         THEN /\ sync' = [sync EXCEPT ![p].hash_results = rest,
                    ![p].processed = me.processed + 1,
                    ![p].skipped = me.skipped + 1,
                    ![p].progress = called,
                    ![p].monotone = mono,
                    ![p].pc = NextPc(rest)]
              /\ UNCHANGED <<metaDisk, quiet, retry>>
         ELSE IF me.dry_run
         THEN /\ sync' = [sync EXCEPT ![p].hash_results = rest,
                    ![p].processed = me.processed + 1,
                    ![p].indexed = me.indexed + 1,
                    ![p].progress = called,
                    ![p].monotone = mono,
                    ![p].pc = NextPc(rest)]
              /\ UNCHANGED <<metaDisk, quiet, retry>>
         ELSE \E chunk_ok \in BOOLEAN :
                 IF chunk_ok
                 THEN LET queue == Append(me.embed_queue,
                                      [path |-> r.path, hash |-> r.hash,
                                       chunks |-> PreparedChunks(r.path, r.hash,
                                                                 ChunkCount(r.content))])
                      IN /\ sync' = [sync EXCEPT ![p].hash_results = rest,
                               ![p].processed = me.processed + 1,
                               ![p].progress = called,
                               ![p].monotone = mono,
                               ![p].embed_queue = queue,
                               ![p].pc = IF Len(queue) >= me.batch_size THEN "flush"
                                         ELSE NextPc(rest)]
                         /\ UNCHANGED <<metaDisk, quiet, retry>>
                 ELSE /\ sync' = [sync EXCEPT ![p].pc = "failed", ![p].fail = "chunk",
                               ![p].failed_batch = {},
                               ![p].progress = called,
                               ![p].monotone = mono]
                      /\ metaDisk' = AbortMetaDisk(metaDisk, me.meta_store)
                      /\ quiet' = FALSE
                      /\ retry' = {}
   /\ UNCHANGED <<disk, unreadable, store, callers, runs, edits>>
   /\ UNCHANGED <<lockVars, compVars>>

\* lines 200-212: the queue reached batch_size: embed and insert it, then
\* save meta every SAVE_INTERVAL files.
Flush(p) ==
   /\ sync[p].pc = "flush"
   /\ LET me == sync[p]
          batch == me.embed_queue
      IN \E outcome \in {"ok", "embed", "insert"} :
           LET res == process_embed_batch(store, me.meta_store, batch, outcome)
               since == me.since_save + Len(batch)
               ins == me.inserted \cup (IF res.inserted THEN BatchPaths(batch) ELSE {})
           IN IF res.ok
              THEN /\ store' = res.store
                   /\ IF SaveDue(since)
                      THEN \E save_ok \in BOOLEAN :
                             IF save_ok
                             THEN /\ metaDisk' = MetaSave(res.meta)
                                  /\ sync' = [sync EXCEPT ![p].embed_queue = <<>>,
                                        ![p].meta_store = res.meta,
                                        ![p].indexed = me.indexed + res.n,
                                        ![p].n_insert = me.n_insert + (IF res.inserted THEN 1 ELSE 0),
                                        ![p].inserted = ins,
                                        ![p].since_save = 0,
                                        ![p].n_save = me.n_save + 1,
                                        ![p].saved = ins,
                                        ![p].saved_meta = MetaSave(res.meta),
                                        ![p].progress = SyncProgress(me.processed, me.indexed + res.n),
                                        ![p].monotone = NeverDecreased(me, me.processed, me.indexed + res.n),
                                        ![p].pc = NextPc(me.hash_results)]
                                  /\ UNCHANGED <<quiet, retry>>
                             ELSE /\ sync' = [sync EXCEPT ![p].pc = "failed",
                                        ![p].fail = "save",
                                        ![p].embed_queue = <<>>,
                                        ![p].meta_store = res.meta,
                                        ![p].n_insert = me.n_insert + (IF res.inserted THEN 1 ELSE 0),
                                        ![p].inserted = ins,
                                        ![p].indexed = me.indexed + res.n]
                                  /\ metaDisk' = AbortMetaDisk(metaDisk, res.meta)
                                  /\ quiet' = FALSE
                                  /\ retry' = {}
                      ELSE /\ sync' = [sync EXCEPT ![p].embed_queue = <<>>,
                                 ![p].meta_store = res.meta,
                                 ![p].indexed = me.indexed + res.n,
                                 ![p].n_insert = me.n_insert + (IF res.inserted THEN 1 ELSE 0),
                                 ![p].inserted = ins,
                                 ![p].since_save = since,
                                 ![p].progress = SyncProgress(me.processed, me.indexed + res.n),
                                 ![p].monotone = NeverDecreased(me, me.processed, me.indexed + res.n),
                                 ![p].pc = NextPc(me.hash_results)]
                           /\ UNCHANGED <<metaDisk, quiet, retry>>
              ELSE /\ Abort(p, outcome, batch, res.meta, metaDisk)
                   /\ store' = res.store
   /\ UNCHANGED <<disk, unreadable, callers, runs, edits>>
   /\ UNCHANGED <<lockVars, compVars>>

\* lines 225-231: final drain of the queue.
Drain(p) ==
   /\ sync[p].pc = "drain"
   /\ LET me == sync[p]
          batch == me.embed_queue
      IN IF ~me.dry_run /\ batch # <<>>
         THEN \E outcome \in {"ok", "embed", "insert"} :
                LET res == process_embed_batch(store, me.meta_store, batch, outcome)
                IN IF res.ok
                   THEN /\ store' = res.store
                        /\ sync' = [sync EXCEPT ![p].embed_queue = <<>>,
                              ![p].meta_store = res.meta,
                              ![p].indexed = me.indexed + res.n,
                              ![p].n_insert = me.n_insert + (IF res.inserted THEN 1 ELSE 0),
                              ![p].inserted = me.inserted \cup
                                 (IF res.inserted THEN BatchPaths(batch) ELSE {}),
                              ![p].pc = "finish"]
                        /\ UNCHANGED <<metaDisk, quiet, retry>>
                   ELSE /\ Abort(p, outcome, batch, res.meta, metaDisk)
                        /\ store' = res.store
         ELSE /\ sync' = [sync EXCEPT ![p].pc = "finish"]
              /\ UNCHANGED <<store, metaDisk, quiet, retry>>
   /\ UNCHANGED <<disk, unreadable, callers, runs, edits>>
   /\ UNCHANGED <<lockVars, compVars>>

\* lines 233-246: final meta save, index builds when something was
\* indexed, and the Ok return.
Finish(p) ==
   /\ sync[p].pc = "finish"
   /\ LET me == sync[p]
      IN IF me.dry_run
         THEN /\ sync' = [sync EXCEPT ![p].pc = "done",
                    ![p].progress = SyncProgress(me.processed, me.indexed),
                    ![p].monotone = NeverDecreased(me, me.processed, me.indexed)]
              /\ UNCHANGED <<metaDisk, quiet, retry>>
         ELSE \E outcome \in (IF me.indexed > 0 THEN {"ok", "save", "fts", "vec"}
                              ELSE {"ok", "save"}) :
                IF outcome = "save"
                THEN Abort(p, "save", <<>>, me.meta_store, metaDisk)
                ELSE IF outcome = "ok"
                THEN /\ metaDisk' = MetaSave(me.meta_store)
                     /\ sync' = [sync EXCEPT ![p].pc = "done",
                           ![p].n_save = me.n_save + 1,
                           ![p].saved = me.inserted,
                           ![p].saved_meta = MetaSave(me.meta_store),
                           ![p].progress = SyncProgress(me.processed, me.indexed),
                           ![p].monotone = NeverDecreased(me, me.processed, me.indexed),
                           ![p].n_index = me.n_index + (IF me.indexed > 0 THEN 2 ELSE 0)]
                     /\ quiet' = TRUE
                     /\ retry' = {}
                ELSE /\ metaDisk' = AbortMetaDisk(MetaSave(me.meta_store), me.meta_store)
                     /\ sync' = [sync EXCEPT ![p].pc = "failed", ![p].fail = "index",
                           ![p].n_save = me.n_save + 1,
                           ![p].saved = me.inserted,
                           ![p].saved_meta = MetaSave(me.meta_store),
                           ![p].n_index = me.n_index + (IF outcome = "vec" THEN 1 ELSE 0)]
                     /\ quiet' = FALSE
                     /\ retry' = {}
   /\ UNCHANGED <<disk, unreadable, store, callers, runs, edits>>
   /\ UNCHANGED <<lockVars, compVars>>

\* The caller takes the result; the call's locals are dropped.
Return(p) ==
   /\ sync[p].pc \in {"done", "failed"}
   /\ sync' = [sync EXCEPT ![p] = IdleSync]
   /\ UNCHANGED <<disk, unreadable, store, metaDisk, callers, runs, edits, quiet, retry>>
   /\ UNCHANGED <<lockVars, compVars>>

\* ----------------------------------------------------------- environment
\* The repository changes between syncs, never during one.
NoSync == \A p \in Procs : sync[p].pc = "idle"

WriteFile(path) ==
   /\ NoSync
   /\ edits < MaxEdits
   /\ \E c \in Contents :
        /\ c # disk[path]
        /\ disk' = [disk EXCEPT ![path] = c]
   /\ edits' = edits + 1
   /\ quiet' = FALSE
   /\ retry' = retry \ {path}
   /\ UNCHANGED <<unreadable, store, metaDisk, sync, callers, runs>>
   /\ UNCHANGED <<lockVars, compVars>>

RemoveFile(path) ==
   /\ NoSync
   /\ edits < MaxEdits
   /\ disk[path] # Absent
   /\ disk' = [disk EXCEPT ![path] = Absent]
   /\ unreadable' = unreadable \ {path}
   /\ edits' = edits + 1
   /\ quiet' = FALSE
   /\ retry' = retry \ {path}
   /\ UNCHANGED <<store, metaDisk, sync, callers, runs>>
   /\ UNCHANGED <<lockVars, compVars>>

\* The file's permissions flip: reads of it start or stop failing.
Chmod(path) ==
   /\ NoSync
   /\ edits < MaxEdits
   /\ disk[path] # Absent
   /\ unreadable' = IF path \in unreadable THEN unreadable \ {path}
                    ELSE unreadable \cup {path}
   /\ edits' = edits + 1
   /\ quiet' = FALSE
   /\ retry' = retry \ {path}
   /\ UNCHANGED <<disk, store, metaDisk, sync, callers, runs>>
   /\ UNCHANGED <<lockVars, compVars>>

\* ------------------------------------------------------------ index lock
\* File::lock on <store_id>.lock is granted only while no other open file
\* description holds the flock.
FlockFree(holders) == holders = {}

DropLock_OnlyOnSuccess(holders, p, outcome) ==
   IF outcome = "ok" THEN holders \ {p} ELSE holders

\* Drop for IndexLock: the flock is released whatever way the scope ends.
DropLock(holders, p, outcome) == holders \ {p}

\* IndexLock::acquire, lines 14-25: the lock file is opened.
LockOpen(p) ==
   /\ lockPc[p] = "out"
   /\ holds[p] < MaxHolds
   /\ \E s \in StoreIds : lockId' = [lockId EXCEPT ![p] = s]
   /\ lockPc' = [lockPc EXCEPT ![p] = "waiting"]
   /\ holds' = [holds EXCEPT ![p] = holds[p] + 1]
   /\ UNCHANGED lockHolders
   /\ UNCHANGED <<syncVars, compVars>>

\* IndexLock::acquire, line 27: file.lock() blocks until the flock is free.
LockAcquire(p) ==
   /\ lockPc[p] = "waiting"
   /\ FlockFree(lockHolders[lockId[p]])
   /\ lockHolders' = [lockHolders EXCEPT ![lockId[p]] = lockHolders[lockId[p]] \cup {p}]
   /\ lockPc' = [lockPc EXCEPT ![p] = "held"]
   /\ UNCHANGED <<lockId, holds>>
   /\ UNCHANGED <<syncVars, compVars>>

\* The holder's scope ends, by a normal or an error return; the IndexLock
\* value is dropped on both.
LockScopeExit(p) ==
   /\ lockPc[p] = "held"
   /\ \E outcome \in {"ok", "err"} :
        lockHolders' = [lockHolders EXCEPT
                          ![lockId[p]] = DropLock(lockHolders[lockId[p]], p, outcome)]
   /\ lockPc' = [lockPc EXCEPT ![p] = "out"]
   /\ UNCHANGED <<lockId, holds>>
   /\ UNCHANGED <<syncVars, compVars>>

SyncStep(p) ==
   \/ Start(p)
   \/ DeleteStale(p)
   \/ GetHashes(p)
   \/ DeleteChanged(p)
   \/ LoopFile(p)
   \/ Flush(p)
   \/ Drain(p)
   \/ Finish(p)
   \/ Return(p)

Edit(path) ==
   \/ WriteFile(path)
   \/ RemoveFile(path)
   \/ Chmod(path)

Next ==
   \/ \E p \in Procs : SyncStep(p)
   \/ \E path \in Paths : Edit(path)

\* One caller at a time: syncs run one after the other.
Spec == Init /\ [][Next]_vars

\* Two callers of initial_sync on the same store id (the daemon's sync and
\* a client's in-process sync), ConcCalls calls in all, on an unchanging
\* repository.
InitConc ==
   /\ InitCommon
   /\ CompsIdle
   /\ callers = Procs
   /\ runs = MaxRuns - ConcCalls
   /\ edits = MaxEdits

NextConc == \E p \in Procs : SyncStep(p)

SpecConc == InitConc /\ [][NextConc]_vars

\* Users of the index lock alone.
\* No initial_sync caller and nobody at the index lock.
InitQuiet ==
   /\ InitCommon
   /\ callers = {}
   /\ runs = 0
   /\ edits = 0
   /\ disk = [p \in Paths |-> 1]

InitLock == InitQuiet /\ CompsIdle

NextLock ==
   \E p \in Procs :
      \/ LockOpen(p)
      \/ LockAcquire(p)
      \/ LockScopeExit(p)

\* A holder's scope always ends (weak fairness of the exit); a process
\* blocked in flock is granted the lock when it is freed often enough
\* (strong fairness of the grant).
SpecLock ==
   /\ InitLock
   /\ [][NextLock]_vars
   /\ \A p \in Procs : WF_vars(LockScopeExit(p)) /\ SF_vars(LockAcquire(p))

\* ------------------------------------------------------ daemon autospawn
\* try_daemon_search: `for _ in 0..50` and `Duration::from_millis(100)`.
RETRIES == 50
SLEEP_MS == 100

RetryExhausted_OffByOne(attempts) == attempts > RETRIES

\* The range 0..50 is used up after the 50th connect of the loop.
RetryExhausted(attempts) == attempts >= RETRIES

\* The `else` branch of `let Ok(stream) = connect(..)`: only a failed first
\* connect spawns.
ShouldSpawn(connected) == ~connected

spawnRest == <<syncVars, lockVars, ipcVars, embedVars, rankVars, searchVars, libVars>>

\* The first connect; when it fails, spawn_daemon (whose error is returned
\* by `?`).
FirstConnect ==
   /\ dsPc = "connect"
   /\ IF ShouldSpawn(listening)
      THEN \E spawn_ok \in BOOLEAN :
              /\ dsSpawns' = dsSpawns + 1
              /\ IF spawn_ok
                 THEN /\ dsPc' = IF RetryExhausted(dsAttempts) THEN "done" ELSE "sleep"
                      /\ dsResult' = IF RetryExhausted(dsAttempts) THEN "none" ELSE dsResult
                 ELSE /\ dsPc' = "done"
                      /\ dsResult' = "err"
              /\ UNCHANGED dsConnected
      ELSE /\ dsPc' = "request"
           /\ dsConnected' = "first"
           /\ UNCHANGED <<dsSpawns, dsResult>>
   /\ UNCHANGED <<listening, dsAttempts, dsSlept, dsSent>>
   /\ UNCHANGED spawnRest

\* time::sleep(100 ms) at the head of a loop iteration.
Sleep ==
   /\ dsPc = "sleep"
   /\ dsSlept' = dsSlept + SLEEP_MS
   /\ dsPc' = "poll"
   /\ UNCHANGED <<listening, dsSpawns, dsAttempts, dsConnected, dsSent, dsResult>>
   /\ UNCHANGED spawnRest

\* The connect of a loop iteration; after the last failed one, Ok(None).
Poll ==
   /\ dsPc = "poll"
   /\ dsAttempts' = dsAttempts + 1
   /\ IF listening
      THEN /\ dsPc' = "request"
           /\ dsConnected' = "poll"
           /\ UNCHANGED dsResult
      ELSE /\ dsPc' = IF RetryExhausted(dsAttempts + 1) THEN "done" ELSE "sleep"
           /\ dsResult' = IF RetryExhausted(dsAttempts + 1) THEN "none" ELSE dsResult
           /\ UNCHANGED dsConnected
   /\ UNCHANGED <<listening, dsSpawns, dsSlept, dsSent>>
   /\ UNCHANGED spawnRest

\* send_search_request on the connected stream: the daemon's answer, or an
\* error of the exchange.
SendSearchRequest ==
   /\ dsPc = "request"
   /\ dsSent' = dsSent + 1
   /\ \E outcome \in {"some", "err"} : dsResult' = outcome
   /\ dsPc' = "done"
   /\ UNCHANGED <<listening, dsSpawns, dsAttempts, dsSlept, dsConnected>>
   /\ UNCHANGED spawnRest

\* A daemon (the spawned one, or one started by another client) binds the
\* socket, or the daemon goes away.
DaemonUp ==
   /\ ~listening
   /\ listening' = TRUE
   /\ UNCHANGED <<dsPc, dsSpawns, dsAttempts, dsSlept, dsConnected, dsSent, dsResult>>
   /\ UNCHANGED spawnRest

DaemonDown ==
   /\ listening
   /\ listening' = FALSE
   /\ UNCHANGED <<dsPc, dsSpawns, dsAttempts, dsSlept, dsConnected, dsSent, dsResult>>
   /\ UNCHANGED spawnRest

ClientStep == FirstConnect \/ Sleep \/ Poll \/ SendSearchRequest

InitSpawn ==
   /\ InitQuiet
   /\ LibIdle
   /\ IpcIdle
   /\ EmbedNew
   /\ RankIdle
   /\ SearchIdle
   /\ listening \in BOOLEAN
   /\ dsPc = "connect"
   /\ dsSpawns = 0
   /\ dsAttempts = 0
   /\ dsSlept = 0
   /\ dsConnected = "none"
   /\ dsSent = 0
   /\ dsResult = "pending"

NextSpawn == ClientStep \/ DaemonUp \/ DaemonDown

\* The client's task is scheduled as long as it has a step to take; a
\* connected daemon answers the request or closes the stream.
SpecSpawn == InitSpawn /\ [][NextSpawn]_vars /\ WF_vars(ClientStep)

\* ------------------------------------------------------------ ipc frames
\* The cap of recv is 16 * 1024 * 1024 bytes in the source; it is scaled to
\* the modelled messages so that messages on both sides of the cap exist.
MAX_MESSAGE_LEN == 8

\* Request and Response values (a SearchResult is reduced to its content
\* string; strings are sequences of bytes; an Option is a sequence of
\* length 0 or 1).
IpcMsgs ==
   { [type |-> "Request", variant |-> "Search", query |-> <<>>, limit |-> 1,
      path |-> <<>>, rerank |-> FALSE],
     [type |-> "Request", variant |-> "Search", query |-> <<97>>, limit |-> 300,
      path |-> << <<47, 120>> >>, rerank |-> TRUE],
     [type |-> "Request", variant |-> "Health"],
     [type |-> "Request", variant |-> "Shutdown"],
     [type |-> "Response", variant |-> "Search", results |-> <<>>,
      status |-> "Ready", progress |-> <<>>],
     [type |-> "Response", variant |-> "Search",
      results |-> << <<99, 99, 99>>, <<100, 100, 100>> >>,
      status |-> "Indexing", progress |-> <<50>>],
     [type |-> "Response", variant |-> "Shutdown", success |-> TRUE],
     [type |-> "Response", variant |-> "Error", message |-> <<101>>] }

\* postcard's encoding of the field types: unsigned integers are varints
\* (7 bits per byte, low bits first), a string or Vec is its length and its
\* elements, a bool is one byte, an Option is a tag byte and the value.
RECURSIVE Enc(_, _)
Enc(kind, v) ==
   CASE kind = "varint" ->
           IF v < 128 THEN <<v>> ELSE <<128 + (v % 128)>> \o Enc("varint", v \div 128)
     [] kind = "str" -> Enc("varint", Len(v)) \o v
     [] kind = "bool" -> <<IF v THEN 1 ELSE 0>>
     [] kind = "opt_str" -> IF v = <<>> THEN <<0>> ELSE <<1>> \o Enc("str", v[1])
     [] kind = "opt_u8" -> IF v = <<>> THEN <<0>> ELSE <<1, v[1]>>
     [] kind = "strs" ->
           IF v = <<>> THEN <<>> ELSE Enc("str", Head(v)) \o Enc("strs", Tail(v))
     [] kind = "vec_str" -> Enc("varint", Len(v)) \o Enc("strs", v)

\* postcard::to_extend of a Request or Response: the variant index, then
\* the fields in declaration order.
to_extend(msg) ==
   IF msg.type = "Request"
   THEN CASE msg.variant = "Search" ->
                <<0>> \o Enc("str", msg.query) \o Enc("varint", msg.limit)
                      \o Enc("opt_str", msg.path) \o Enc("bool", msg.rerank)
          [] msg.variant = "Health" -> <<1>>
          [] msg.variant = "Shutdown" -> <<2>>
   ELSE CASE msg.variant = "Search" ->
                <<0>> \o Enc("vec_str", msg.results)
                      \o <<IF msg.status = "Ready" THEN 0 ELSE 1>>
                      \o Enc("opt_u8", msg.progress)
          [] msg.variant = "Shutdown" -> <<2>> \o Enc("bool", msg.success)
          [] msg.variant = "Error" -> <<3>> \o Enc("str", msg.message)

DecFail == [ok |-> FALSE, val |-> 0, rest |-> <<>>]

\* The decoding of the field types: the value and the bytes after it; n is
\* the number of elements still to read of a Vec.
RECURSIVE Dec(_, _, _)
Dec(kind, b, n) ==
   CASE kind = "varint" ->
           IF b = <<>> THEN DecFail
           ELSE IF Head(b) < 128 THEN [ok |-> TRUE, val |-> Head(b), rest |-> Tail(b)]
           ELSE LET r == Dec("varint", Tail(b), 0)
                IN IF r.ok
                   THEN [ok |-> TRUE, val |-> (Head(b) - 128) + 128 * r.val, rest |-> r.rest]
                   ELSE DecFail
     [] kind = "str" ->
           LET l == Dec("varint", b, 0)
           IN IF l.ok /\ Len(l.rest) >= l.val
              THEN [ok |-> TRUE, val |-> SubSeq(l.rest, 1, l.val),
                    rest |-> SubSeq(l.rest, l.val + 1, Len(l.rest))]
              ELSE DecFail
     [] kind = "bool" ->
           IF b # <<>> /\ Head(b) \in {0, 1}
           THEN [ok |-> TRUE, val |-> (Head(b) = 1), rest |-> Tail(b)]
           ELSE DecFail
     [] kind = "opt_str" ->
           IF b = <<>> THEN DecFail
           ELSE IF Head(b) = 0 THEN [ok |-> TRUE, val |-> <<>>, rest |-> Tail(b)]
           ELSE IF Head(b) = 1
                THEN LET r == Dec("str", Tail(b), 0)
                     IN IF r.ok THEN [ok |-> TRUE, val |-> <<r.val>>, rest |-> r.rest]
                        ELSE DecFail
                ELSE DecFail
     [] kind = "opt_u8" ->
           IF b = <<>> THEN DecFail
           ELSE IF Head(b) = 0 THEN [ok |-> TRUE, val |-> <<>>, rest |-> Tail(b)]
           ELSE IF Head(b) = 1 /\ Len(b) >= 2
                THEN [ok |-> TRUE, val |-> <<b[2]>>, rest |-> SubSeq(b, 3, Len(b))]
                ELSE DecFail
     [] kind = "strs" ->
           IF n = 0 THEN [ok |-> TRUE, val |-> <<>>, rest |-> b]
           ELSE LET r == Dec("str", b, 0)
                IN IF ~r.ok THEN DecFail
                   ELSE LET t == Dec("strs", r.rest, n - 1)
                        IN IF t.ok
                           THEN [ok |-> TRUE, val |-> <<r.val>> \o t.val, rest |-> t.rest]
                           ELSE DecFail
     [] kind = "vec_str" ->
           LET l == Dec("varint", b, 0)
           IN IF l.ok THEN Dec("strs", l.rest, l.val) ELSE DecFail

NoValue == [ok |-> FALSE, value |-> "none"]

DecRequest(b) ==
   LET v == Dec("varint", b, 0)
   IN IF ~v.ok THEN NoValue
      ELSE IF v.val = 0
      THEN LET q == Dec("str", v.rest, 0)
               l == Dec("varint", q.rest, 0)
               pa == Dec("opt_str", l.rest, 0)
               r == Dec("bool", pa.rest, 0)
           IN IF q.ok /\ l.ok /\ pa.ok /\ r.ok
              THEN [ok |-> TRUE,
                    value |-> [type |-> "Request", variant |-> "Search", query |-> q.val,
                               limit |-> l.val, path |-> pa.val, rerank |-> r.val]]
              ELSE NoValue
      ELSE IF v.val = 1 THEN [ok |-> TRUE, value |-> [type |-> "Request", variant |-> "Health"]]
      ELSE IF v.val = 2 THEN [ok |-> TRUE, value |-> [type |-> "Request", variant |-> "Shutdown"]]
      ELSE NoValue

DecResponse(b) ==
   LET v == Dec("varint", b, 0)
   IN IF ~v.ok THEN NoValue
      ELSE IF v.val = 0
      THEN LET rs == Dec("vec_str", v.rest, 0)
               st == Dec("varint", rs.rest, 0)
               pr == Dec("opt_u8", st.rest, 0)
           IN IF rs.ok /\ st.ok /\ st.val \in {0, 1} /\ pr.ok
              THEN [ok |-> TRUE,
                    value |-> [type |-> "Response", variant |-> "Search", results |-> rs.val,
                               status |-> IF st.val = 0 THEN "Ready" ELSE "Indexing",
                               progress |-> pr.val]]
              ELSE NoValue
      ELSE IF v.val = 2
      THEN LET ok == Dec("bool", v.rest, 0)
           IN IF ok.ok
              THEN [ok |-> TRUE,
                    value |-> [type |-> "Response", variant |-> "Shutdown", success |-> ok.val]]
              ELSE NoValue
      ELSE IF v.val = 3
      THEN LET m == Dec("str", v.rest, 0)
           IN IF m.ok
              THEN [ok |-> TRUE,
                    value |-> [type |-> "Response", variant |-> "Error", message |-> m.val]]
              ELSE NoValue
      ELSE NoValue

\* postcard::from_bytes::<T>: bytes after the value are not looked at.
from_bytes(type, b) == IF type = "Request" THEN DecRequest(b) ELSE DecResponse(b)

\* u32::to_le_bytes of `len as u32` (the fourth byte's % 256 is the
\* truncation to 32 bits), and u32::from_le_bytes.
to_le_bytes(n) ==
   <<n % 256, (n \div 256) % 256, (n \div 65536) % 256, (n \div 16777216) % 256>>

from_le_bytes(b) == b[1] + 256 * b[2] + 65536 * b[3] + 16777216 * b[4]

\* SmallVec::resize(n, 0).
Resize(b, n) ==
   IF n <= Len(b) THEN SubSeq(b, 1, n) ELSE b \o [i \in 1..(n - Len(b)) |-> 0]

\* read_exact into a slice: every byte of the slice is overwritten.
ReadExact(slice, stream) == [i \in 1..Len(slice) |-> stream[i]]

\* SocketBuffer::send, the buffer it writes: clear, four reserved bytes,
\* the serialized message, then the length stored in the first four bytes.
SendBuf(buf, msg) ==
   LET cleared == <<>>
       reserved == Resize(cleared, 4)
       extended == reserved \o to_extend(msg)
       payload_len == Len(extended) - 4
   IN to_le_bytes(payload_len) \o SubSeq(extended, 5, Len(extended))

\* recv: `if len > 16 * 1024 * 1024 { bail!(..) }`
TooLarge(len) == len > MAX_MESSAGE_LEN

\* SocketBuffer::recv of a value of the given type from the stream.
recv(buf, stream, type) ==
   LET len == from_le_bytes(SubSeq(stream, 1, 4))
   IN IF Len(stream) < 4
      THEN [ok |-> FALSE, value |-> "failed to read length", buf |-> buf,
            consumed |-> Len(stream), declared |-> 0]
      ELSE IF TooLarge(len)
      THEN [ok |-> FALSE, value |-> "message too large", buf |-> buf,
            consumed |-> 4, declared |-> len]
      ELSE IF Len(stream) < 4 + len
      THEN [ok |-> FALSE, value |-> "failed to read payload", buf |-> Resize(buf, len),
            consumed |-> Len(stream), declared |-> len]
      ELSE LET filled == ReadExact(Resize(buf, len), SubSeq(stream, 5, Len(stream)))
               de == from_bytes(type, filled)
           IN [ok |-> de.ok,
               value |-> IF de.ok THEN de.value ELSE "failed to deserialize message",
               buf |-> filled, consumed |-> 4 + len, declared |-> len]

ipcRest == <<syncVars, lockVars, spawnVars, embedVars, rankVars, searchVars, libVars>>

\* buffer.send(&mut stream, &msg): the frame is written whatever its size.
IpcSend(msg) ==
   /\ Len(ipcLog) < MaxInFlight
   /\ ipcLast.ok
   /\ sbuf' = SendBuf(sbuf, msg)
   /\ wire' = wire \o sbuf'
   /\ ipcLog' = Append(ipcLog, msg)
   /\ ipcLast' = [op |-> "send", msg |-> msg, bytes |-> sbuf', ok |-> TRUE,
                  value |-> "none", consumed |-> 0, declared |-> 0, buf_before |-> sbuf]
   /\ UNCHANGED ipcRest

\* buffer.recv(&mut stream) of the type the protocol expects next.
IpcRecv ==
   /\ ipcLog # <<>>
   /\ ipcLast.ok
   /\ LET r == recv(sbuf, wire, Head(ipcLog).type)
      IN /\ sbuf' = r.buf
         /\ wire' = SubSeq(wire, r.consumed + 1, Len(wire))
         /\ ipcLog' = Tail(ipcLog)
         /\ ipcLast' = [op |-> "recv", msg |-> Head(ipcLog), bytes |-> <<>>, ok |-> r.ok,
                        value |-> r.value, consumed |-> r.consumed,
                        declared |-> r.declared, buf_before |-> sbuf]
   /\ UNCHANGED ipcRest

\* After a failed recv the stream is dropped; the next exchange runs on a
\* new connection, with the same or a new SocketBuffer.
IpcReconnect ==
   /\ ~ipcLast.ok
   /\ wire' = <<>>
   /\ ipcLog' = <<>>
   /\ ipcLast' = NoIpc
   /\ \E keep \in BOOLEAN : sbuf' = IF keep THEN sbuf ELSE <<>>
   /\ UNCHANGED ipcRest

InitIpc == InitQuiet /\ SpawnIdle /\ IpcIdle /\ EmbedNew /\ RankIdle /\ SearchIdle /\ LibIdle

NextIpc ==
   \/ \E msg \in IpcMsgs : IpcSend(msg)
   \/ IpcRecv
   \/ IpcReconnect

SpecIpc == InitIpc /\ [][NextIpc]_vars

\* ------------------------------------------------------- embedder loading
is_some(m) == m # "None"

\* CandleEmbedder::is_ready
is_ready(m) == is_some(m)

\* parking_lot::RwLock: a read lock needs no writer, the write lock needs
\* no writer and no reader.
CanRead(w) == w = {}

CanWrite(w, r) == w = {} /\ r = {}

\* ensure_model_loaded, line 37: the check under the read lock.
FastPath(m) == is_some(m)

Recheck_Skipped(m) == FALSE

\* ensure_model_loaded, line 42: the check repeated under the write lock.
Recheck(m) == is_some(m)

embedRest == <<syncVars, lockVars, spawnVars, ipcVars, rankVars, searchVars, libVars>>

\* compute_hybrid or encode_query is called; ensure_model_loaded takes the
\* read lock for its first check and drops it.
EmbedCall(p) ==
   /\ embPc[p] = "idle"
   /\ embCalls[p] < MaxEmbedCalls
   /\ CanRead(writer)
   /\ embCalls' = [embCalls EXCEPT ![p] = embCalls[p] + 1]
   /\ embLate' = [embLate EXCEPT ![p] = everReady]
   /\ embPc' = [embPc EXCEPT ![p] = IF FastPath(model) THEN "use" ELSE "want_write"]
   /\ UNCHANGED <<model, writer, readers, loads, everReady>>
   /\ UNCHANGED embedRest

\* self.model.write(), then the second check.
EmbedWriteLock(p) ==
   /\ embPc[p] = "want_write"
   /\ CanWrite(writer, readers)
   /\ IF Recheck(model)
      THEN /\ embPc' = [embPc EXCEPT ![p] = "use"]
           /\ UNCHANGED writer
      ELSE /\ embPc' = [embPc EXCEPT ![p] = "loading"]
           /\ writer' = writer \cup {p}
   /\ UNCHANGED <<model, readers, embCalls, embLate, loads, everReady>>
   /\ UNCHANGED embedRest

\* load_model under the write lock: its result is stored, or its error is
\* returned; the guard is dropped on both.
EmbedLoad(p) ==
   /\ embPc[p] = "loading"
   /\ \E load_ok \in BOOLEAN :
        IF load_ok
        THEN /\ model' = "Some"
             /\ loads' = loads + 1
             /\ everReady' = TRUE
             /\ embPc' = [embPc EXCEPT ![p] = "use"]
        ELSE /\ embPc' = [embPc EXCEPT ![p] = "idle"]
             /\ UNCHANGED <<model, loads, everReady>>
   /\ writer' = writer \ {p}
   /\ UNCHANGED <<readers, embCalls, embLate>>
   /\ UNCHANGED embedRest

\* The computation takes read locks of the model (tokenize, forward).
EmbedUse(p) ==
   /\ embPc[p] = "use"
   /\ CanRead(writer)
   /\ readers' = readers \cup {p}
   /\ embPc' = [embPc EXCEPT ![p] = "computing"]
   /\ UNCHANGED <<model, writer, embCalls, embLate, loads, everReady>>
   /\ UNCHANGED embedRest

EmbedReturn(p) ==
   /\ embPc[p] = "computing"
   /\ readers' = readers \ {p}
   /\ embPc' = [embPc EXCEPT ![p] = "idle"]
   /\ UNCHANGED <<model, writer, embCalls, embLate, loads, everReady>>
   /\ UNCHANGED embedRest

InitEmbed == InitQuiet /\ SpawnIdle /\ IpcIdle /\ EmbedNew /\ RankIdle /\ SearchIdle /\ LibIdle

NextEmbed ==
   \E p \in Procs :
      \/ EmbedCall(p)
      \/ EmbedWriteLock(p)
      \/ EmbedLoad(p)
      \/ EmbedUse(p)
      \/ EmbedReturn(p)

SpecEmbed == InitEmbed /\ [][NextEmbed]_vars

\* ---------------------------------------------------------------- ranking
\* Paths are their bytes (as_bytes); scores are fixed-point numbers, ONE
\* standing for the f32 score 1.0, so that the three multipliers of
\* apply_structural_boost are exact on the modelled scores.
ONE == 1600

\* The paths of the modelled results.
PATH ==
   [ main |-> <<115, 114, 99, 47, 109, 97, 105, 110, 46, 114, 115>>,   \* "src/main.rs"
     lib |-> <<115, 114, 99, 47, 108, 105, 98, 46, 114, 115>>,   \* "src/lib.rs"
     test |-> <<115, 114, 99, 47, 120, 46, 116, 101, 115, 116, 46, 116, 115>>,   \* "src/x.test.ts"
     spec |-> <<115, 114, 99, 47, 89, 46, 83, 80, 69, 67, 46, 74, 83>>,   \* "src/Y.SPEC.JS"
     readme |-> <<82, 69, 65, 68, 77, 69, 46, 77, 68>>,   \* "README.MD"
     docs |-> <<97, 47, 100, 111, 99, 115, 47, 103, 46, 114, 115>>,   \* "a/docs/g.rs"
     tests_json |-> <<115, 114, 99, 47, 95, 95, 116, 101, 115, 116, 115, 95, 95, 47, 117, 46, 106, 115, 111, 110>> ]   \* "src/__tests__/u.json"

to_ascii_lowercase(b) == IF b \in 65..90 THEN b + 32 ELSE b

\* contains_ci: some window of the haystack equals the needle, ASCII case
\* ignored.
contains_ci(haystack, needle) ==
   \E i \in 1..(Len(haystack) - Len(needle) + 1) :
      \A j \in 1..Len(needle) :
         to_ascii_lowercase(haystack[i + j - 1]) = to_ascii_lowercase(needle[j])

eq_ignore_ascii_case(a, b) ==
   /\ Len(a) = Len(b)
   /\ \A j \in 1..Len(a) : to_ascii_lowercase(a[j]) = to_ascii_lowercase(b[j])

\* Path::extension: the part of the file name after its last '.', none when
\* the name has no '.' or only a leading one.  An Option: length 0 or 1.
extension(path) ==
   LET LastIndexOf(str, c) ==
          IF \E i \in 1..Len(str) : str[i] = c
          THEN CHOOSE i \in 1..Len(str) : str[i] = c /\ \A j \in (i + 1)..Len(str) : str[j] # c
          ELSE 0
       file_name == SubSeq(path, LastIndexOf(path, 47) + 1, Len(path))
       dot == LastIndexOf(file_name, 46)
   IN IF dot <= 1 THEN <<>> ELSE <<SubSeq(file_name, dot + 1, Len(file_name))>>

is_test_file(path) ==
   \/ contains_ci(path, <<46, 116, 101, 115, 116, 46>>)   \* ".test."
   \/ contains_ci(path, <<46, 115, 112, 101, 99, 46>>)   \* ".spec."
   \/ contains_ci(path, <<95, 95, 116, 101, 115, 116, 115, 95, 95>>)   \* "__tests__"

DocExtensions ==
   { <<109, 100>>,   \* "md"
     <<109, 100, 120>>,   \* "mdx"
     <<116, 120, 116>>,   \* "txt"
     <<106, 115, 111, 110>>,   \* "json"
     <<121, 97, 109, 108>>,   \* "yaml"
     <<121, 109, 108>>,   \* "yml"
     <<108, 111, 99, 107>> }   \* "lock"

is_doc_or_config(path) ==
   \/ /\ extension(path) # <<>>
      /\ \E e \in DocExtensions : eq_ignore_ascii_case(extension(path)[1], e)
   \/ contains_ci(path, <<47, 100, 111, 99, 115, 47>>)   \* "/docs/"

BoostedTypes == {"Function", "Class", "Interface", "Method", "TypeAlias"}

BoostScore_FirstRuleOnly(score, chunk_type, path) ==
   IF chunk_type \in BoostedTypes THEN (score * 5) \div 4
   ELSE IF is_test_file(path) THEN (score * 17) \div 20
   ELSE IF is_doc_or_config(path) THEN score \div 2
   ELSE score

\* The body of the loop of apply_structural_boost: three independent ifs,
\* `score *= 1.25`, `score *= 0.85`, `score *= 0.5`.
BoostScore(score, chunk_type, path) ==
   LET s1 == IF chunk_type \in BoostedTypes THEN (score * 5) \div 4 ELSE score
       s2 == IF is_test_file(path) THEN (s1 * 17) \div 20 ELSE s1
   IN IF is_doc_or_config(path) THEN s2 \div 2 ELSE s2

apply_structural_boost(results) ==
   [i \in 1..Len(results) |->
      [results[i] EXCEPT !.score = BoostScore(results[i].score, results[i].chunk_type,
                                              results[i].path)]]

\* Ordering of paths (cmp): by bytes, a proper prefix first.
RECURSIVE PathLess(_, _)
PathLess(a, b) ==
   IF b = <<>> THEN FALSE
   ELSE IF a = <<>> THEN TRUE
   ELSE IF Head(a) # Head(b) THEN Head(a) < Head(b)
   ELSE PathLess(Tail(a), Tail(b))

CmpDedup_ScoreAsc(a, b) ==
   IF a.path # b.path THEN PathLess(a.path, b.path)
   ELSE IF a.start_line # b.start_line THEN a.start_line < b.start_line
   ELSE a.score < b.score

\* The comparator of deduplicate is Less: path, then start_line, then score
\* descending.
CmpDedup(a, b) ==
   IF a.path # b.path THEN PathLess(a.path, b.path)
   ELSE IF a.start_line # b.start_line THEN a.start_line < b.start_line
   ELSE b.score < a.score

\* The first comparator of apply_per_file_limit: path, then score descending.
CmpPerFile(a, b) ==
   IF a.path # b.path THEN PathLess(a.path, b.path)
   ELSE b.score < a.score

\* b.score.partial_cmp(&a.score): score descending.
CmpScoreDesc(a, b) == b.score < a.score

Before(order, a, b) ==
   CASE order = "dedup" -> CmpDedup(a, b)
     [] order = "per_file" -> CmpPerFile(a, b)
     [] order = "score_desc" -> CmpScoreDesc(a, b)

\* slice::sort_by is stable: an element goes before the first one it is
\* Less than, after every element it is equal to.
RECURSIVE InsertSorted(_, _, _)
InsertSorted(order, x, sorted) ==
   IF sorted = <<>> THEN <<x>>
   ELSE IF Before(order, x, Head(sorted)) THEN <<x>> \o sorted
   ELSE <<Head(sorted)>> \o InsertSorted(order, x, Tail(sorted))

RECURSIVE SortFrom(_, _, _)
SortFrom(order, rest, sorted) ==
   IF rest = <<>> THEN sorted
   ELSE SortFrom(order, Tail(rest), InsertSorted(order, Head(rest), sorted))

sort_by(order, results) == SortFrom(order, results, <<>>)

\* The loop of deduplicate: a result is dropped when the last kept one has
\* its path and start_line.
RECURSIVE DedupLoop(_, _)
DedupLoop(rest, deduplicated) ==
   IF rest = <<>> THEN deduplicated
   ELSE LET result == Head(rest)
            dominated_by_last ==
               /\ deduplicated # <<>>
               /\ deduplicated[Len(deduplicated)].path = result.path
               /\ deduplicated[Len(deduplicated)].start_line = result.start_line
        IN IF dominated_by_last THEN DedupLoop(Tail(rest), deduplicated)
           ELSE DedupLoop(Tail(rest), Append(deduplicated, result))

deduplicate(results) ==
   IF results = <<>> THEN [panic |-> FALSE, list |-> results]
   ELSE [panic |-> FALSE, list |-> DedupLoop(sort_by("dedup", results), <<>>)]

\* The loop of apply_per_file_limit; `final_results.last().unwrap()` panics
\* when nothing has been kept and i > 0.
RECURSIVE PerFileLoop(_, _, _, _, _)
PerFileLoop(rest, i, final_results, count, limit) ==
   IF rest = <<>> THEN [panic |-> FALSE, list |-> final_results]
   ELSE IF i # 0 /\ final_results = <<>> THEN [panic |-> TRUE, list |-> <<>>]
   ELSE LET result == Head(rest)
            is_new_path ==
               i = 0 \/ final_results[Len(final_results)].path # result.path
            c == IF is_new_path THEN 0 ELSE count
        IN IF c < limit
           THEN PerFileLoop(Tail(rest), i + 1, Append(final_results, result), c + 1, limit)
           ELSE PerFileLoop(Tail(rest), i + 1, final_results, c, limit)

apply_per_file_limit(results, limit) ==
   LET kept == PerFileLoop(sort_by("per_file", results), 0, <<>>, 0, limit)
   IN IF kept.panic THEN kept
      ELSE [panic |-> FALSE, list |-> sort_by("score_desc", kept.list)]

\* Sequences of at most n elements of S.
SeqsUpTo(S, n) == UNION {[1..m -> S] : m \in 0..n}

RankResults ==
   [path : {PATH.main, PATH.lib}, start_line : {10, 20}, score : {ONE, 2 * ONE},
    chunk_type : {"Function"}]

BoostResults ==
   [path : {PATH.main, PATH.test, PATH.spec, PATH.readme, PATH.docs, PATH.tests_json},
    start_line : {1}, score : {ONE, 2 * ONE},
    chunk_type : {"Function", "TypeAlias", "Block", "None"}]

rankRest == <<syncVars, lockVars, spawnVars, ipcVars, embedVars, searchVars, libVars>>

Deduplicate ==
   /\ rkOp = "none"
   /\ rkOp' = "deduplicate"
   /\ rkOut' = deduplicate(rkInput)
   /\ UNCHANGED <<rkInput, rkK>>
   /\ UNCHANGED rankRest

ApplyPerFileLimit(k) ==
   /\ rkOp = "none"
   /\ rkOp' = "apply_per_file_limit"
   /\ rkK' = k
   /\ rkOut' = apply_per_file_limit(rkInput, k)
   /\ UNCHANGED rkInput
   /\ UNCHANGED rankRest

ApplyStructuralBoost ==
   /\ rkOp = "none"
   /\ rkOp' = "apply_structural_boost"
   /\ rkOut' = [panic |-> FALSE, list |-> apply_structural_boost(rkInput)]
   /\ UNCHANGED <<rkInput, rkK>>
   /\ UNCHANGED rankRest

InitRank ==
   /\ InitQuiet /\ SpawnIdle /\ IpcIdle /\ EmbedNew /\ SearchIdle /\ LibIdle
   /\ rkInput \in SeqsUpTo(RankResults, MaxResults)
   /\ rkOp = "none"
   /\ rkK = 0
   /\ rkOut = NoOutput

NextRank ==
   \/ Deduplicate
   \/ \E k \in 0..MaxK : ApplyPerFileLimit(k)

SpecRank == InitRank /\ [][NextRank]_vars

InitBoost ==
   /\ InitQuiet /\ SpawnIdle /\ IpcIdle /\ EmbedNew /\ SearchIdle /\ LibIdle
   /\ rkInput \in SeqsUpTo(BoostResults, MaxBoosted)
   /\ rkOp = "none"
   /\ rkK = 0
   /\ rkOut = NoOutput

NextBoost == ApplyStructuralBoost

SpecBoost == InitBoost /\ [][NextBoost]_vars

\* ---------------------------------------------------------- search engine
Take(list, n) == SubSeq(list, 1, IF n < Len(list) THEN n ELSE Len(list))

\* Store::search: at most params.limit results, best first.
StoreSearch(hits, limit) == Take(hits, limit)

\* What the store reports about its indexing beside the results.
StoreStates ==
   { [status |-> "Ready", progress |-> <<>>],
     [status |-> "Indexing", progress |-> <<50>>] }

\* SearchParams.limit: `limit * 2`
CandidateCount(limit) == limit * 2

Diversify_Always(per_file_limit) == TRUE

\* `if per_file_limit > 0`
Diversify(per_file_limit) == per_file_limit > 0

\* search, lines 55-65: boost, sort by score descending, per-file limit,
\* truncate.
RankResponse(results, limit, per_file_limit) ==
   LET boosted == apply_structural_boost(results)
       sorted == sort_by("score_desc", boosted)
       limited == IF Diversify(per_file_limit)
                  THEN apply_per_file_limit(sorted, per_file_limit)
                  ELSE [panic |-> FALSE, list |-> sorted]
   IN [panic |-> limited.panic, list |-> Take(limited.list, limit)]

SearchResults ==
   [path : {PATH.main, PATH.test}, start_line : {1}, score : {ONE, (ONE * 6) \div 5},
    chunk_type : {"Function", "Block"}]

searchRest == <<syncVars, lockVars, spawnVars, ipcVars, embedVars, rankVars, libVars>>

\* search, line 41: the query is encoded; an embedder error is returned.
SearchEncode ==
   /\ se.pc = "idle"
   /\ \E limit \in 0..MaxLimit, per_file_limit \in 0..MaxK, ok \in BOOLEAN :
        se' = IF ok
              THEN [se EXCEPT !.pc = "encoded", !.limit = limit,
                              !.per_file_limit = per_file_limit, !.encoded = TRUE]
              ELSE [se EXCEPT !.pc = "done", !.limit = limit,
                              !.per_file_limit = per_file_limit, !.fail = "encode"]
   /\ UNCHANGED seHits
   /\ UNCHANGED searchRest

\* search, lines 42-67: the store query and the ranking of its answer.
SearchStore ==
   /\ se.pc = "encoded"
   /\ \E ok \in BOOLEAN, st \in StoreStates :
        LET asked == CandidateCount(se.limit)
            store_response == [results |-> StoreSearch(seHits, asked),
                               status |-> st.status, progress |-> st.progress]
            ranked == RankResponse(store_response.results, se.limit, se.per_file_limit)
        IN se' = IF ~ok
                 THEN [se EXCEPT !.pc = "done", !.asked = asked, !.fail = "store"]
                 ELSE IF ranked.panic
                 THEN [se EXCEPT !.pc = "done", !.asked = asked,
                                 !.store_response = store_response, !.fail = "panic"]
                 ELSE [se EXCEPT !.pc = "done", !.asked = asked,
                                 !.store_response = store_response,
                                 !.response = [store_response EXCEPT !.results = ranked.list]]
   /\ UNCHANGED seHits
   /\ UNCHANGED searchRest

InitSearch ==
   /\ InitQuiet /\ SpawnIdle /\ IpcIdle /\ EmbedNew /\ RankIdle /\ LibIdle
   /\ seHits \in SeqsUpTo(SearchResults, MaxHits)
   /\ se = IdleSearch

NextSearch == SearchEncode \/ SearchStore

SpecSearch == InitSearch /\ [][NextSearch]_vars

\* ------------------------------------------------------ meta store calls
\* A MetaStore used on its own: loaded, changed through its methods, saved
\* and loaded again.
MaxMetaOps == 4

otherVars == <<syncVars, lockVars, spawnVars, ipcVars, embedVars, rankVars, searchVars>>

OthersIdle == InitQuiet /\ SpawnIdle /\ IpcIdle /\ EmbedNew /\ RankIdle /\ SearchIdle

metaRest == <<otherVars, colbertVars, chunkVars>>

NoPaths == [p \in Paths |-> NoHash]

\* The meta files a load may find: none, one written by save(), and a legacy
\* file with the `hashes` map (alone, or beside `files` for other paths).
MetaFiles ==
   {NoFile}
   \cup {[files |-> [NoPaths EXCEPT !["b"] = h], hashes |-> NoPaths] : h \in Hashes}
   \cup {[files |-> NoPaths, hashes |-> [NoPaths EXCEPT !["a"] = h]] : h \in Hashes}
   \cup {[files |-> [NoPaths EXCEPT !["c"] = h],
          hashes |-> [NoPaths EXCEPT !["a"] = h, !["b"] = h]] : h \in Hashes}

MetaLoaded == mtLast # "none" /\ mtOps < MaxMetaOps

\* MetaStore::load(store_id)
MetaLoadCall ==
   /\ mtOps < MaxMetaOps
   /\ mt' = MetaLoad(mtDisk)
   /\ mtExpect' = IF mtLast = "save" THEN mtExpect
                  ELSE [p \in Paths |-> get_hash(MetaLoad(mtDisk), p)]
   /\ mtLast' = IF mtLast = "save" THEN "reload" ELSE "load"
   /\ mtOps' = mtOps + 1
   /\ UNCHANGED mtDisk
   /\ UNCHANGED metaRest

MetaSetHash(p, h) ==
   /\ MetaLoaded
   /\ mt' = set_hash(mt, p, h)
   /\ mtExpect' = [mtExpect EXCEPT ![p] = h]
   /\ mtLast' = "set_hash"
   /\ mtOps' = mtOps + 1
   /\ UNCHANGED mtDisk
   /\ UNCHANGED metaRest

MetaSetMeta(p, h) ==
   /\ MetaLoaded
   /\ \E mtime \in {0, 1} : mt' = set_meta(mt, p, h, mtime)
   /\ mtExpect' = [mtExpect EXCEPT ![p] = h]
   /\ mtLast' = "set_meta"
   /\ mtOps' = mtOps + 1
   /\ UNCHANGED mtDisk
   /\ UNCHANGED metaRest

MetaRemoveCall(p) ==
   /\ MetaLoaded
   /\ mt' = MetaRemove(mt, p)
   /\ mtExpect' = [mtExpect EXCEPT ![p] = NoHash]
   /\ mtLast' = "remove"
   /\ mtOps' = mtOps + 1
   /\ UNCHANGED mtDisk
   /\ UNCHANGED metaRest

MetaDeleteByPrefix(prefix) ==
   /\ MetaLoaded
   /\ mt' = delete_by_prefix(mt, prefix)
   /\ mtExpect' = [p \in Paths |->
                     IF /\ Len(prefix) <= Len(PathText[p])
                        /\ SubSeq(PathText[p], 1, Len(prefix)) = prefix
                     THEN NoHash ELSE mtExpect[p]]
   /\ mtLast' = "delete_by_prefix"
   /\ mtOps' = mtOps + 1
   /\ UNCHANGED mtDisk
   /\ UNCHANGED metaRest

\* MetaStore::save, when every file system call succeeds.
MetaSaveCall ==
   /\ MetaLoaded
   /\ mtDisk' = MetaSave(mt)
   /\ mtLast' = "save"
   /\ mtOps' = mtOps + 1
   /\ UNCHANGED <<mt, mtExpect>>
   /\ UNCHANGED metaRest

InitMeta ==
   /\ OthersIdle
   /\ ColbertIdle
   /\ ChunkIdle
   /\ mt = EmptyMeta
   /\ mtDisk \in MetaFiles
   /\ mtExpect = NoPaths
   /\ mtLast = "none"
   /\ mtOps = 0

NextMeta ==
   \/ MetaLoadCall
   \/ \E p \in Paths, h \in Hashes : MetaSetHash(p, h)
   \/ \E p \in Paths, h \in Hashes : MetaSetMeta(p, h)
   \/ \E p \in Paths : MetaRemoveCall(p)
   \/ \E prefix \in Prefixes : MetaDeleteByPrefix(prefix)
   \/ MetaSaveCall

SpecMeta == InitMeta /\ [][NextMeta]_vars

\* -------------------------------------------------------- MaxSim scoring
\* search/colbert.rs.  f32 values are integers in a fixed unit, and every
\* arithmetic operation rounds its exact result to the nearest value with
\* cbBits significant bits, ties to even (f32: 24 bits, here Mantissa).
\* With WideBits no operation on the bounded inputs rounds: the arithmetic
\* is that of the real numbers.
Mantissa == 3
WideBits == 20

\* The SIMD width, 8 in the source.
LANES == 2

MaxQRows == 2          \* rows of the query matrix
MaxBytes == 4          \* length of the stored byte string

RECURSIVE Pow2(_)
Pow2(n) == IF n = 0 THEN 1 ELSE 2 * Pow2(n - 1)

\* The spacing of the representable values around n >= 0.
RECURSIVE Ulp(_, _)
Ulp(n, bits) == IF n < Pow2(bits) THEN 1 ELSE 2 * Ulp(n \div 2, bits)

RoundNat(n, bits) ==
   LET u == Ulp(n, bits)
       lower == (n \div u) * u
       rem == n - lower
   IN IF 2 * rem < u THEN lower
      ELSE IF 2 * rem > u THEN lower + u
      ELSE IF (lower \div u) % 2 = 0 THEN lower ELSE lower + u

\* Rounding of an exact result to f32.
fl(x) == IF x >= 0 THEN RoundNat(x, cbBits) ELSE 0 - RoundNat(0 - x, cbBits)

\* `b as i8`
as_i8(b) == IF b >= 128 THEN b - 256 ELSE b

\* f32::NEG_INFINITY: below every score of the bounded inputs
NEG_INFINITY == -1000000

\* f32::max
fmax(a, b) == IF a >= b THEN a ELSE b

\* Array2<f32>: shape and row-major data.
Array2(nrows, ncols, data) == [nrows |-> nrows, ncols |-> ncols, data |-> data]

is_empty(m) == m.nrows * m.ncols = 0

row(m, i) == SubSeq(m.data, (i - 1) * m.ncols + 1, i * m.ncols)

\* Simd::reduce_sum: the lanes added in order.
RECURSIVE reduce_sum(_)
reduce_sum(v) ==
   IF Len(v) = 1 THEN v[1]
   ELSE fl(reduce_sum(SubSeq(v, 1, Len(v) - 1)) + v[Len(v)])

\* dot_product_simd, lines 236-265
dot_product_simd(a, b) ==
   LET len == Len(a)
       chunks == len \div LANES
       remainder == len % LANES
       RECURSIVE SumVec(_, _)
       SumVec(i, sum_vec) ==
          IF i = chunks THEN sum_vec
          ELSE SumVec(i + 1,
                      [l \in 1..LANES |->
                         fl(sum_vec[l] + fl(a[i * LANES + l] * b[i * LANES + l]))])
       RECURSIVE Tail_(_, _)
       Tail_(i, sum) ==
          IF i = remainder THEN sum
          ELSE Tail_(i + 1, fl(sum + fl(a[chunks * LANES + i + 1] * b[chunks * LANES + i + 1])))
   IN Tail_(0, reduce_sum(SumVec(0, [l \in 1..LANES |-> 0])))

\* max_sim, lines 16-41
max_sim(query, doc) ==
   IF is_empty(query) \/ is_empty(doc) THEN 0
   ELSE LET RECURSIVE MaxDot(_, _, _)
            MaxDot(q_row, d_idx, max_dot) ==
               IF d_idx = doc.nrows THEN max_dot
               ELSE MaxDot(q_row, d_idx + 1,
                           fmax(max_dot, dot_product_simd(q_row, row(doc, d_idx + 1))))
            RECURSIVE Total(_, _)
            Total(q_idx, total_score) ==
               IF q_idx = query.nrows THEN total_score
               ELSE Total(q_idx + 1,
                          fl(total_score + MaxDot(row(query, q_idx + 1), 0, NEG_INFINITY)))
        IN Total(0, 0)

dequantize_colbert_KeepsPadding(quantized, scale, dim) ==
   IF quantized = <<>> \/ dim = 0 THEN Array2(0, 0, <<>>)
   ELSE LET valid_len == (Len(quantized) \div dim) * dim
            scale_f32 == fl(scale)
            data == [j \in 1..valid_len |-> fl(as_i8(quantized[j]) * scale_f32)]
        IN IF valid_len = 0 THEN Array2(0, dim, <<>>)
           ELSE Array2(valid_len \div dim, dim, data)

\* dequantize_colbert, lines 48-93
dequantize_colbert(quantized, scale, dim) ==
   IF quantized = <<>> \/ dim = 0 THEN Array2(0, 0, <<>>)
   ELSE LET valid_len == (Len(quantized) \div dim) * dim
            scale_f32 == fl(scale)
            num_tokens == valid_len \div dim
            RECURSIVE Tokens(_, _, _)
            Tokens(token_idx, data, write_token) ==
               IF token_idx = num_tokens
               THEN [data |-> data, write_token |-> write_token]
               ELSE LET src_start == token_idx * dim
                        dst_start == write_token * dim
                        val == [i \in 1..dim |->
                                  fl(as_i8(quantized[src_start + i]) * scale_f32)]
                        is_padding == \A i \in 1..dim : val[i] = 0
                    IN Tokens(token_idx + 1,
                              [j \in 1..valid_len |->
                                 IF j > dst_start /\ j <= dst_start + dim
                                 THEN val[j - dst_start] ELSE data[j]],
                              IF is_padding THEN write_token ELSE write_token + 1)
            done == Tokens(0, [j \in 1..valid_len |-> 0], 0)
            truncated == SubSeq(done.data, 1, done.write_token * dim)
        IN IF done.write_token = 0 THEN Array2(0, dim, <<>>)
           ELSE Array2(done.write_token, dim, truncated)

\* max_sim_quantized, lines 100-182
max_sim_quantized(query, doc_quantized, doc_scale, dim) ==
   IF is_empty(query) \/ doc_quantized = <<>> \/ dim = 0 THEN 0
   ELSE LET valid_len == (Len(doc_quantized) \div dim) * dim
            num_doc_tokens == valid_len \div dim
            scale_factor == fl(doc_scale)
            chunk_count == dim \div LANES
            remainder == dim % LANES
            \* lines 146-157: the SIMD chunks of one document token
            RECURSIVE Chunks(_, _, _, _)
            Chunks(q_row, d_start, chunk_idx, acc) ==
               IF chunk_idx = chunk_count THEN acc
               ELSE LET offset == chunk_idx * LANES
                        d_chunk == [l \in 1..LANES |->
                                      as_i8(doc_quantized[d_start + offset + l])]
                        d_f32 == [l \in 1..LANES |-> fl(d_chunk[l] * scale_factor)]
                        prod == [l \in 1..LANES |-> fl(q_row[offset + l] * d_f32[l])]
                    IN Chunks(q_row, d_start, chunk_idx + 1,
                              [is_padding |->
                                 acc.is_padding /\ \A l \in 1..LANES : d_chunk[l] = 0,
                               dot |-> fl(acc.dot + reduce_sum(prod))])
            \* lines 159-168: the scalar tail
            RECURSIVE Tail_(_, _, _, _)
            Tail_(q_row, d_start, i, acc) ==
               IF i = remainder THEN acc
               ELSE LET base == chunk_count * LANES
                        quantized_val == as_i8(doc_quantized[d_start + base + i + 1])
                    IN Tail_(q_row, d_start, i + 1,
                             [is_padding |-> acc.is_padding /\ quantized_val = 0,
                              dot |-> fl(acc.dot
                                         + fl(fl(q_row[base + i + 1] * quantized_val)
                                              * scale_factor))])
            RECURSIVE DocTokens(_, _, _)
            DocTokens(q_row, d_idx, acc) ==
               IF d_idx = num_doc_tokens THEN acc
               ELSE LET d_start == d_idx * dim
                        t == Tail_(q_row, d_start, 0,
                                   Chunks(q_row, d_start, 0,
                                          [is_padding |-> TRUE, dot |-> 0]))
                    IN DocTokens(q_row, d_idx + 1,
                                 IF ~t.is_padding
                                 THEN [found_token |-> TRUE,
                                       max_dot |-> fmax(acc.max_dot, t.dot)]
                                 ELSE acc)
            RECURSIVE Total(_, _)
            Total(q_idx, total_score) ==
               IF q_idx = query.nrows THEN total_score
               ELSE LET r == DocTokens(row(query, q_idx + 1), 0,
                                       [found_token |-> FALSE, max_dot |-> NEG_INFINITY])
                    IN Total(q_idx + 1,
                             IF r.found_token THEN fl(total_score + r.max_dot)
                             ELSE total_score)
        IN Total(0, 0)

\* The inputs: query values (3 and -1) and scales that f32 holds exactly,
\* bytes whose i8 values are 0, 5 and -3.
ByteValues == {0, 5, 253}
Scales == {0, 5}
Dims == {1, 2, 3, 4}

\* The rows a query may hold at a dimension: a constant row and a row that
\* alternates the two query values.
QueryRows(dim) ==
   {[i \in 1..dim |-> 3], [i \in 1..dim |-> IF i % 2 = 1 THEN -1 ELSE 3]}

\* The query of the call as an Array2.
RECURSIVE RowMajor(_)
RowMajor(rows) == IF rows = <<>> THEN <<>> ELSE Head(rows) \o RowMajor(Tail(rows))

QueryMatrix == Array2(Len(cbQuery), cbDim, RowMajor(cbQuery))

colbertRest == <<otherVars, metaVars, chunkVars>>

MaxSimQuantized ==
   /\ cbBits # 0
   /\ cbOut.quantized = <<>>
   /\ cbOut' = [cbOut EXCEPT
         !.quantized = <<max_sim_quantized(QueryMatrix, cbBytes, cbScale, cbDim)>>]
   /\ UNCHANGED <<cbBits, cbQuery, cbBytes, cbScale, cbDim>>
   /\ UNCHANGED colbertRest

\* dequantize_colbert, then max_sim over its result.
MaxSimDequantized ==
   /\ cbBits # 0
   /\ cbOut.quantized # <<>>
   /\ cbOut.dequantized = <<>>
   /\ LET doc == dequantize_colbert(cbBytes, cbScale, cbDim)
      IN cbOut' = [cbOut EXCEPT !.doc = doc,
                                !.dequantized = <<max_sim(QueryMatrix, doc)>>]
   /\ UNCHANGED <<cbBits, cbQuery, cbBytes, cbScale, cbDim>>
   /\ UNCHANGED colbertRest

InitColbert ==
   /\ OthersIdle
   /\ MetaIdle
   /\ ChunkIdle
   /\ cbBits \in {Mantissa, WideBits}
   /\ cbDim \in Dims
   /\ cbQuery \in SeqsUpTo(QueryRows(cbDim), MaxQRows)
   /\ cbBytes \in SeqsUpTo(ByteValues, MaxBytes)
   /\ cbScale \in Scales
   /\ cbOut = NoScores

NextColbert == MaxSimQuantized \/ MaxSimDequantized

SpecColbert == InitColbert /\ [][NextColbert]_vars

\* ---------------------------------------------------------------- chunker
\* A content is the sequence of its bytes.  The bytes that matter to the
\* chunker are the newline, the space, the bytes of one-byte characters and
\* the two bytes of a two-byte character: its lead byte "L" and its
\* continuation byte "C".

MaxFileLines == 7      \* lines of a content given to a chunking function

\* The limits of the source are 75 lines, 2000 bytes, and overlaps of 10
\* lines and 200 bytes.  They are scaled so that a window of short lines and
\* its header line fit the byte limit, as they do in the source, and so that
\* the line overlap is not below the two lines a skipped window can hold.
MAX_LINES == 4
MAX_CHARS == 10
OVERLAP_LINES == 2
OVERLAP_CHARS == 2

NL == "\n"

is_whitespace(b) == b \in {" ", NL}

\* content[a..b]
Slice(s, a, b) == SubSeq(s, a + 1, b)

SetMin(S) == CHOOSE x \in S : \A y \in S : x <= y
SetMax(S) == CHOOSE x \in S : \A y \in S : x >= y

is_char_boundary(s, i) == i = 0 \/ i = Len(s) \/ (i < Len(s) /\ s[i + 1] # "C")

floor_char_boundary(s, index) ==
   IF index >= Len(s) THEN Len(s)
   ELSE SetMax({i \in 0..index : is_char_boundary(s, i)})

ceil_char_boundary(s, index) ==
   IF index > Len(s) THEN Len(s)
   ELSE SetMin({i \in index..Len(s) : is_char_boundary(s, i)})

trim_start(s) ==
   LET solid == {i \in 1..Len(s) : ~is_whitespace(s[i])}
   IN IF solid = {} THEN <<>> ELSE SubSeq(s, SetMin(solid), Len(s))

trim_end(s) ==
   LET solid == {i \in 1..Len(s) : ~is_whitespace(s[i])}
   IN IF solid = {} THEN <<>> ELSE SubSeq(s, 1, SetMax(solid))

trim(s) == trim_end(trim_start(s))

\* str::lines: the text between newlines; no last line after a final newline.
RECURSIVE lines(_)
lines(s) ==
   IF s = <<>> THEN <<>>
   ELSE LET nl == {i \in 1..Len(s) : s[i] = NL}
        IN IF nl = {} THEN <<s>>
           ELSE <<SubSeq(s, 1, SetMin(nl) - 1)>> \o lines(SubSeq(s, SetMin(nl) + 1, Len(s)))

\* slice.join("\n")
RECURSIVE join(_)
join(ls) ==
   IF ls = <<>> THEN <<>>
   ELSE IF Len(ls) = 1 THEN ls[1]
   ELSE ls[1] \o <<NL>> \o join(Tail(ls))

line_range_to_byte_range(content, start_line, end_line) ==
   LET newlines == {idx \in 0..(Len(content) - 1) : content[idx + 1] = NL}
       seen(idx) == Cardinality({j \in newlines : j <= idx})
       ends == {idx \in newlines : seen(idx) = end_line}
       starts == {idx \in newlines : /\ seen(idx) = start_line
                                     /\ \A e \in ends : idx < e}
   IN [start_byte |-> IF starts = {} THEN 0 ELSE SetMin(starts) + 1,
       end_byte |-> IF ends = {} THEN Len(content) ELSE SetMin(ends)]

NewChunk(content, start_line, end_line, chunk_type) ==
   [content |-> content, start_line |-> start_line, end_line |-> end_line,
    chunk_type |-> chunk_type]

\* The loop of split_by_chars_impl over what is left of the content.
RECURSIVE SplitLoop(_, _, _)
SplitLoop(rest, ln, chunk_type) ==
   LET iter == trim_start(rest)
       lim == floor_char_boundary(iter, MAX_CHARS)
       pre == Slice(iter, 0, lim)
       post == Slice(iter, lim, Len(iter))
       trimmed == trim_end(pre)
       n == Len(lines(trimmed))
   IN IF iter = <<>> THEN <<>>
      ELSE IF trimmed = <<>> THEN SplitLoop(post, ln, chunk_type)
      ELSE <<NewChunk(trimmed, ln, ln + n, chunk_type)>> \o SplitLoop(post, ln + n, chunk_type)

split_by_chars_impl(content, start_line, chunk_type) ==
   SplitLoop(content, start_line, chunk_type)

split_content_by_chars(input, start_line) ==
   split_by_chars_impl(input, start_line, "Block")

split_by_chars(chunk) ==
   split_by_chars_impl(chunk.content, chunk.start_line, chunk.chunk_type)

\* None is <<>>, Some(h) is <<h>>.
extract_header_line(text) ==
   LET ls == lines(text)
       solid == {i \in 1..Len(ls) : trim(ls[i]) # <<>>}
   IN IF solid = {} THEN <<>> ELSE <<trim(ls[SetMin(solid)])>>

\* The windows when each begins where the one before it ended.
RECURSIVE LineWindows_NoOverlap(_, _, _)
LineWindows_NoOverlap(chunk, line_count, i) ==
   LET end == IF i + MAX_LINES <= line_count THEN i + MAX_LINES ELSE line_count
       range == line_range_to_byte_range(chunk.content, i, end)
       window == Slice(chunk.content, range.start_byte, range.end_byte)
       header == extract_header_line(chunk.content)
       content == IF header # <<>> /\ i > 0 /\ chunk.chunk_type # "Block"
                  THEN header[1] \o <<NL>> \o window
                  ELSE window
   IN IF i >= line_count THEN <<>>
      ELSE IF end - i < 3 /\ i > 0 THEN <<>>
      ELSE <<NewChunk(content, chunk.start_line + i, chunk.start_line + end,
                      chunk.chunk_type)>>
           \o LineWindows_NoOverlap(chunk, line_count, i + MAX_LINES)

\* The sub_chunks of split_if_too_big: its windows of lines from line i on.
RECURSIVE LineWindows(_, _, _)
LineWindows(chunk, line_count, i) ==
   LET stride == IF MAX_LINES - OVERLAP_LINES >= 1 THEN MAX_LINES - OVERLAP_LINES ELSE 1
       end == IF i + MAX_LINES <= line_count THEN i + MAX_LINES ELSE line_count
       range == line_range_to_byte_range(chunk.content, i, end)
       window == Slice(chunk.content, range.start_byte, range.end_byte)
       header == extract_header_line(chunk.content)
       content == IF header # <<>> /\ i > 0 /\ chunk.chunk_type # "Block"
                  THEN header[1] \o <<NL>> \o window
                  ELSE window
   IN IF i >= line_count THEN <<>>
      ELSE IF end - i < 3 /\ i > 0 THEN LineWindows(chunk, line_count, i + stride)
      ELSE <<NewChunk(content, chunk.start_line + i, chunk.start_line + end,
                      chunk.chunk_type)>>
           \o LineWindows(chunk, line_count, i + stride)

\* The pass of split_if_too_big over its sub_chunks.
RECURSIVE CharPass(_)
CharPass(sub_chunks) ==
   IF sub_chunks = <<>> THEN <<>>
   ELSE (IF Len(Head(sub_chunks).content) > MAX_CHARS
         THEN split_by_chars(Head(sub_chunks))
         ELSE <<Head(sub_chunks)>>) \o CharPass(Tail(sub_chunks))

split_if_too_big(chunk) ==
   LET char_count == Len(chunk.content)
       line_count == Len(lines(chunk.content))
   IN IF line_count <= MAX_LINES /\ char_count <= MAX_CHARS THEN <<chunk>>
      ELSE IF char_count > MAX_CHARS /\ line_count <= MAX_LINES THEN split_by_chars(chunk)
      ELSE CharPass(LineWindows(chunk, line_count, 0))

RECURSIVE SimpleLoop(_, _, _)
SimpleLoop(content, line_count, i) ==
   LET stride == IF MAX_LINES - OVERLAP_LINES >= 1 THEN MAX_LINES - OVERLAP_LINES ELSE 1
       end == IF i + MAX_LINES <= line_count THEN i + MAX_LINES ELSE line_count
       range == line_range_to_byte_range(content, i, end)
       sub_content == Slice(content, range.start_byte, range.end_byte)
   IN IF i >= line_count THEN <<>>
      ELSE (IF Len(sub_content) <= MAX_CHARS
            THEN <<NewChunk(sub_content, i, end, "Block")>>
            ELSE split_content_by_chars(sub_content, i))
           \o SimpleLoop(content, line_count, i + stride)

simple_chunk(content) == SimpleLoop(content, Len(lines(content)), 0)

RECURSIVE FlatSplit(_)
FlatSplit(raw_chunks) ==
   IF raw_chunks = <<>> THEN <<>>
   ELSE split_if_too_big(Head(raw_chunks)) \o FlatSplit(Tail(raw_chunks))

\* split_by_chars of fallback.rs, from byte i on.
RECURSIVE FallbackSplitLoop(_, _, _)
FallbackSplitLoop(content, start_line, i) ==
   LET stride == IF MAX_CHARS - OVERLAP_CHARS >= 1 THEN MAX_CHARS - OVERLAP_CHARS ELSE 1
       bound == ceil_char_boundary(content, i + MAX_CHARS)
       end == IF bound <= Len(content) THEN bound ELSE Len(content)
       sub == Slice(content, i, end)
       prefix_lines == Len(lines(Slice(content, 0, i)))
       sub_line_count == Len(lines(sub))
   IN IF i >= Len(content) THEN <<>>
      ELSE IF trim(sub) = <<>> THEN <<>>
      ELSE <<NewChunk(sub, start_line + prefix_lines,
                      start_line + prefix_lines + sub_line_count, "Block")>>
           \o FallbackSplitLoop(content, start_line, ceil_char_boundary(content, i + stride))

fallback_split_by_chars(content, start_line) == FallbackSplitLoop(content, start_line, 0)

\* FallbackChunker::chunk, from line i on.
RECURSIVE FallbackLoop(_, _)
FallbackLoop(ls, i) ==
   LET stride == IF MAX_LINES - OVERLAP_LINES >= 1 THEN MAX_LINES - OVERLAP_LINES ELSE 1
       end == IF i + MAX_LINES <= Len(ls) THEN i + MAX_LINES ELSE Len(ls)
       sub_content == join(SubSeq(ls, i + 1, end))
   IN IF i >= Len(ls) THEN <<>>
      ELSE (IF Len(sub_content) <= MAX_CHARS
            THEN <<NewChunk(sub_content, i, end, "Block")>>
            ELSE fallback_split_by_chars(sub_content, i))
           \o FallbackLoop(ls, i + stride)

fallback_chunk(content) == FallbackLoop(lines(content), 0)

\* A syntax tree, as far as the chunker reads it: the named children of the
\* root, each with its rows, whether is_definition_node holds for it, and
\* its own named children.  A node begins where its first row begins and
\* ends where its last row ends; no node is an export_statement.
MaxTreeLines == 6      \* lines of a parsed file

Node(start_row, end_row, definition, children) ==
   [start_row |-> start_row, end_row |-> end_row, definition |-> definition,
    children |-> children]

\* start_byte and end_byte of a node
NodeBytes(content, node) ==
   line_range_to_byte_range(content, node.start_row, node.end_row + 1)

node_text(content, node) ==
   Slice(content, NodeBytes(content, node).start_byte, NodeBytes(content, node).end_byte)

\* root.end_position().row
RootEndRow(content) == Cardinality({i \in 1..Len(content) : content[i] = NL})

RECURSIVE visit_node(_, _)
RECURSIVE VisitAll(_, _)
visit_node(node, content) ==
   (IF node.definition
    THEN <<NewChunk(node_text(content, node), node.start_row, node.end_row, "Other")>>
    ELSE <<>>) \o VisitAll(node.children, content)

VisitAll(children, content) ==
   IF children = <<>> THEN <<>>
   ELSE visit_node(Head(children), content) \o VisitAll(Tail(children), content)

RECURSIVE SawDefinition(_)
SawDefinition(children) ==
   /\ children # <<>>
   /\ \/ Head(children).definition
      \/ SawDefinition(Head(children).children)
      \/ SawDefinition(Tail(children))

\* The block_chunks of chunk_with_tree_sitter: the text before each
\* definition among the root's children, and the text after the last one.
RECURSIVE BlockChunks(_, _, _, _)
BlockChunks(children, content, cursor_index, cursor_row) ==
   IF children = <<>>
   THEN IF /\ cursor_index < Len(content)
           /\ trim(Slice(content, cursor_index, Len(content))) # <<>>
        THEN <<NewChunk(Slice(content, cursor_index, Len(content)), cursor_row,
                        RootEndRow(content), "Block")>>
        ELSE <<>>
   ELSE LET child == Head(children)
            bytes == NodeBytes(content, child)
            gap_text == Slice(content, cursor_index, bytes.start_byte)
        IN IF child.definition
           THEN (IF bytes.start_byte > cursor_index /\ trim(gap_text) # <<>>
                 THEN <<NewChunk(gap_text, cursor_row, child.start_row, "Block")>>
                 ELSE <<>>)
                \o BlockChunks(Tail(children), content, bytes.end_byte, child.end_row)
           ELSE BlockChunks(Tail(children), content, cursor_index, cursor_row)

ChunkBefore(a, b) ==
   \/ a.start_line < b.start_line
   \/ a.start_line = b.start_line /\ a.end_line < b.end_line

\* The stable sort of combined by (start_line, end_line).
RECURSIVE InsertChunk(_, _)
InsertChunk(sorted, c) ==
   IF sorted = <<>> THEN <<c>>
   ELSE IF ChunkBefore(c, Head(sorted)) THEN <<c>> \o sorted
   ELSE <<Head(sorted)>> \o InsertChunk(Tail(sorted), c)

RECURSIVE sort_chunks(_)
sort_chunks(combined) ==
   IF combined = <<>> THEN <<>>
   ELSE InsertChunk(sort_chunks(SubSeq(combined, 1, Len(combined) - 1)),
                    combined[Len(combined)])

\* Ok(None) is "none", Err is "err", Ok(Some(chunks)) is "some".
chunk_with_tree_sitter(content, parse) ==
   IF parse.language = "none" THEN [result |-> "none", chunks |-> <<>>]
   ELSE IF parse.language = "err" THEN [result |-> "err", chunks |-> <<>>]
   ELSE IF ~SawDefinition(parse.children) THEN [result |-> "some", chunks |-> <<>>]
   ELSE [result |-> "some",
         chunks |-> sort_chunks(BlockChunks(parse.children, content, 0, 0)
                            \o VisitAll(parse.children, content))]

chunk(content, parse) ==
   LET parsed == chunk_with_tree_sitter(content, parse)
       raw_chunks == IF parsed.result = "some" THEN parsed.chunks
                     ELSE simple_chunk(content)
   IN FlatSplit(raw_chunks)

\* ------------------------------------------------- chunking function calls
ShortLine == <<"a">>
\* Longer than MAX_CHARS, with a two-byte character across byte MAX_CHARS.
LongLine == <<"b", "b", "b", "b", "b", "b", "b", "b", "b", "L", "C", "b">>
LineShapes == {<<>>, ShortLine, LongLine}

FileContents == {join(ls) : ls \in SeqsUpTo(LineShapes, MaxFileLines)}

WholeFile(content) == NewChunk(content, 0, Len(lines(content)), "Block")

IsWholeFile(c) == c = WholeFile(c.content)

chunkRest == <<otherVars, metaVars, colbertVars>>

SplitIfTooBig ==
   /\ ckOp = "none"
   /\ ckOp' = "split_if_too_big"
   /\ ckOut' = split_if_too_big(ckChunk)
   /\ UNCHANGED <<ckChunk, ckParse>>
   /\ UNCHANGED chunkRest

\* split_by_chars is called for chunks longer than MAX_CHARS that have at
\* most MAX_LINES lines, or one more with a header line.
SplitByChars ==
   /\ ckOp = "none"
   /\ Len(ckChunk.content) > MAX_CHARS
   /\ Len(lines(ckChunk.content)) <= MAX_LINES + 1
   /\ ckOp' = "split_by_chars"
   /\ ckOut' = split_by_chars(ckChunk)
   /\ UNCHANGED <<ckChunk, ckParse>>
   /\ UNCHANGED chunkRest

\* FallbackChunker::chunk of a file.
FallbackChunk ==
   /\ ckOp = "none"
   /\ IsWholeFile(ckChunk)
   /\ ckOp' = "fallback_chunk"
   /\ ckOut' = fallback_chunk(ckChunk.content)
   /\ UNCHANGED <<ckChunk, ckParse>>
   /\ UNCHANGED chunkRest

\* Chunker::chunk of a file.
ChunkerChunk ==
   /\ ckOp = "none"
   /\ IsWholeFile(ckChunk)
   /\ ckOp' = "chunk"
   /\ ckOut' = chunk(ckChunk.content, ckParse)
   /\ UNCHANGED <<ckChunk, ckParse>>
   /\ UNCHANGED chunkRest

\* A whole file that has no grammar, or a definition that begins on the
\* fourth line of a file.
InitSplit ==
   /\ OthersIdle
   /\ MetaIdle
   /\ ColbertIdle
   /\ \E c \in FileContents :
         ckChunk \in {WholeFile(c), NewChunk(c, 3, 3 + Len(lines(c)), "Other")}
   /\ ckParse = NoTree
   /\ ckOp = "none"
   /\ ckOut = <<>>

NextSplit == SplitIfTooBig \/ SplitByChars \/ FallbackChunk \/ ChunkerChunk

SpecSplit == InitSplit /\ [][NextSplit]_vars

Leaves(first, last) ==
   {Node(s, e, TRUE, <<>>) : s \in first..last, e \in first..last}

Nodes(first, last) ==
   {Node(s, e, d, kids) :
       s \in first..last, e \in first..last, d \in BOOLEAN,
       kids \in {<<>>} \cup {<<k>> : k \in Leaves(first, last)}}

WellFormed(node) ==
   /\ node.start_row <= node.end_row
   /\ \A i \in 1..Len(node.children) :
         /\ node.children[i].start_row <= node.children[i].end_row
         /\ node.start_row <= node.children[i].start_row
         /\ node.children[i].end_row <= node.end_row

\* The root's children of the syntax trees of a file of n lines.
Trees(n) ==
   LET nodes == {x \in Nodes(0, n - 1) : WellFormed(x)}
   IN {<<>>} \cup {<<x>> : x \in nodes}
      \cup {<<x, y>> : x \in nodes,
                       y \in {z \in nodes : z.children = <<>>}}

Parses(n) ==
   {NoTree, [language |-> "err", children |-> <<>>]}
   \cup {[language |-> "some", children |-> t] :
            t \in {u \in Trees(n) : Len(u) = 2 => u[1].end_row < u[2].start_row}}

RECURSIVE Repeat(_, _)
Repeat(line, n) == IF n = 0 THEN <<>> ELSE <<line>> \o Repeat(line, n - 1)

\* A file and what get_language and the parser give for it.
InitChunk ==
   /\ OthersIdle
   /\ MetaIdle
   /\ ColbertIdle
   /\ \E n \in 1..MaxTreeLines, last \in {<<>>, <<NL>>} : \E blank \in 0..n :
         LET ls == [i \in 1..n |-> IF i = blank THEN <<>> ELSE ShortLine]
         IN /\ ckChunk = WholeFile(join(ls) \o last)
            /\ ckParse \in Parses(n)
   /\ ckOp = "none"
   /\ ckOut = <<>>

NextChunk == ChunkerChunk

SpecChunk == InitChunk /\ [][NextChunk]_vars

\* ================================================================ claims
Readable == {q \in Paths : disk[q] # Absent /\ q \notin unreadable}

PersistedHash(q) == get_hash(MetaLoad(metaDisk), q)

CurrentHash(q) == compute_hash(disk[q])

\* The hash a sync would find stored for q: meta's, else the store's.
StoredHash(q) ==
   IF PersistedHash(q) # NoHash THEN PersistedHash(q)
   ELSE IF RowsOf(store, q) = {} THEN NoHash
   ELSE (CHOOSE r \in RowsOf(store, q) : TRUE).hash

\* C1 -- Idempotent sync: a sync that starts right after a completed
\* non-dry-run sync, with no file added, changed or removed in between,
\* returns indexed = 0, counts every readable file as skipped and calls
\* neither insert_batch nor delete_files.
C1_IdempotentSync ==
   \A p \in Procs :
      (sync[p].pc = "done" /\ sync[p].started_quiet) =>
         /\ sync[p].indexed = 0
         /\ sync[p].skipped = Cardinality(Readable)
         /\ sync[p].n_insert = 0
         /\ sync[p].n_delete = 0

C1_Witness ==
   \E p \in Procs :
      /\ sync[p].pc = "done"
      /\ sync[p].started_quiet
      /\ ~sync[p].dry_run
      /\ sync[p].skipped = Cardinality(Paths)
      /\ \A q \in Paths : PersistedHash(q) = CurrentHash(q)

\* C2 -- Delete correctness: when a non-dry-run sync completes, a path
\* that is no longer on disk has no record in the vector store and no entry
\* in the meta store, whatever earlier syncs (completed or aborted) did.
C2_DeleteCorrectness ==
   \A p \in Procs :
      (sync[p].pc = "done" /\ ~sync[p].dry_run) =>
         \A q \in Paths :
            disk[q] = Absent => RowsOf(store, q) = {} /\ PersistedHash(q) = NoHash

\* C3 -- Hash consistency: when a non-dry-run sync returns successfully,
\* every record stored for a file it read carries the file's current hash
\* and the meta entry of the file equals that hash.
C3_HashConsistency ==
   \A p \in Procs :
      (sync[p].pc = "done" /\ ~sync[p].dry_run) =>
         \A q \in Readable :
            /\ \A r \in RowsOf(store, q) : r.hash = CurrentHash(q)
            /\ PersistedHash(q) = CurrentHash(q)

\* A non-dry-run call that has written to the store and has not returned:
\* it is between its first store write and its final meta save.
Mutating(p) ==
   /\ Running(p)
   /\ ~sync[p].dry_run
   /\ sync[p].n_delete + sync[p].n_insert > 0

\* C4 -- Single writer: at most one initial_sync on a store id is inside
\* its mutating steps at any time.
C4_SingleWriter == Cardinality({p \in Procs : Mutating(p)}) <= 1

C6_DryRunFrame ==
   \A p \in Procs :
      (sync[p].pc # "idle" /\ sync[p].dry_run) =>
         /\ store = sync[p].store_before
         /\ metaDisk = sync[p].meta_before
         /\ sync[p].meta_store = MetaLoad(sync[p].meta_before)
         /\ sync[p].n_delete = 0 /\ sync[p].n_insert = 0
         /\ sync[p].n_save = 0 /\ sync[p].n_index = 0
         /\ sync[p].pc = "done" =>
               sync[p].indexed =
                  Cardinality({q \in Readable : StoredHash(q) # CurrentHash(q)})

C6_Witness ==
   \E p \in Procs :
      /\ sync[p].pc = "done"
      /\ sync[p].dry_run
      /\ sync[p].indexed >= 1
      /\ sync[p].skipped >= 1
      /\ sync[p].deleted >= 1
      /\ store # EmptyBag

\* C7 -- Per-file failure isolation: a failure to read or chunk one file
\* never makes initial_sync fail; the file is skipped and the sync goes on.
C7_PerFileIsolation ==
   \A p \in Procs : sync[p].pc = "failed" => sync[p].fail # "chunk"

\* C8 -- Embedder failure is batch-scoped: a failing compute_hybrid never
\* makes initial_sync fail; only the batch is left unindexed.
C8_EmbedFailureBatchScoped ==
   \A p \in Procs : sync[p].pc = "failed" => sync[p].fail # "embed"

\* C9 -- Retry after embedding failure: between syncs no persisted meta
\* hash of a file of the failed batch equals the file's current hash, and
\* the next non-dry-run sync that completes has inserted the records of
\* every such (unchanged) file, all carrying its current hash.
C9_RetryAfterEmbedFailure ==
   /\ NoSync => \A q \in retry \cap Readable : PersistedHash(q) # CurrentHash(q)
   /\ \A p \in Procs :
         (sync[p].pc = "done" /\ ~sync[p].dry_run) =>
            \A q \in sync[p].retry_at_start \cap Readable :
               /\ q \in sync[p].inserted
               /\ RowsOf(store, q) # {}
               /\ \A r \in RowsOf(store, q) : r.hash = CurrentHash(q)

C9_Witness ==
   \E p \in Procs :
      /\ sync[p].pc = "done"
      /\ ~sync[p].dry_run
      /\ Cardinality(sync[p].retry_at_start) >= 2
      /\ sync[p].retry_at_start \subseteq sync[p].inserted

\* C10 -- Store failure handling: when insert_batch fails, initial_sync
\* returns the error with no meta hash recorded for a file of the failed
\* batch, and the persisted meta is exactly what the last successful save
\* wrote, holding the hashes of the files inserted before that save.
C10_StoreFailure ==
   \A p \in Procs :
      (sync[p].pc = "failed" /\ sync[p].fail = "insert") =>
         /\ \A q \in sync[p].failed_batch :
               /\ get_hash(sync[p].meta_store, q) # CurrentHash(q)
               /\ PersistedHash(q) # CurrentHash(q)
         /\ metaDisk = sync[p].saved_meta
         /\ \A q \in sync[p].saved : PersistedHash(q) = CurrentHash(q)

C10_Witness ==
   \E p \in Procs :
      /\ sync[p].pc = "failed"
      /\ sync[p].fail = "insert"
      /\ sync[p].failed_batch # {}
      /\ Cardinality(sync[p].saved) >= 2
      /\ sync[p].n_save >= 1

\* A call of initial_sync that has returned, with Ok or with an error.
Returned(p) == sync[p].pc \in {"done", "failed"}

\* C11 -- Index rebuild: every non-dry-run initial_sync call that inserted
\* at least one record has, when it returns, asked the store for both index
\* builds (create_fts_index and create_vector_index) after its last insert.
C11_IndexRebuild ==
   \A p \in Procs :
      (Returned(p) /\ ~sync[p].dry_run /\ sync[p].n_insert > 0) =>
         sync[p].n_index = 2

IsAnchor(c) == c.is_anchor

IsOrdinary(c) == ~c.is_anchor

\* The records of one file: one anchor, at chunk_index 0, and the ordinary
\* chunks numbered 1..n in their order.
AnchorSlot(chunks) ==
   /\ Len(SelectSeq(chunks, IsAnchor)) = 1
   /\ \A i \in 1..Len(chunks) : chunks[i].is_anchor => chunks[i].chunk_index = 0
   /\ LET ord == SelectSeq(chunks, IsOrdinary)
      IN \A j \in 1..Len(ord) : ord[j].chunk_index = j

\* C12 -- Anchor slot: the records initial_sync produces for a file hold
\* exactly one anchor, with chunk_index 0 and is_anchor true; the ordinary
\* chunks have is_anchor false and chunk_index 1..n in chunk order, with no
\* gap and no repeat; every stored row is an anchor exactly when its
\* chunk_index is 0.
C12_AnchorSlot ==
   /\ \A p \in Procs :
         \A i \in 1..Len(sync[p].embed_queue) :
            AnchorSlot(sync[p].embed_queue[i].chunks)
   /\ \A r \in BagToSet(store) :
         /\ r.chunk_index >= 0
         /\ r.is_anchor <=> r.chunk_index = 0
   /\ \A n \in 0..MaxChunks :
         /\ AnchorSlot(PreparedChunks("a", compute_hash(1), n))
         /\ Len(PreparedChunks("a", compute_hash(1), n)) = n + 1

C12_Witness ==
   \E p \in Procs :
      /\ sync[p].pc = "done"
      /\ \E r \in BagToSet(store) :
            /\ r.path \in sync[p].inserted
            /\ ~r.is_anchor
            /\ r.chunk_index = 1
      /\ \E r \in BagToSet(store) :
            /\ r.path \in sync[p].inserted
            /\ r.is_anchor

C14_FrameRoundTrip ==
   /\ ipcLast.op = "send" =>
         LET b == ipcLast.bytes
         IN /\ Len(b) >= 4
            /\ b[1] + 256 * b[2] + 65536 * b[3] + 16777216 * b[4] = Len(b) - 4
            /\ SubSeq(b, 5, Len(b)) = to_extend(ipcLast.msg)
   /\ ipcLast.op = "recv" =>
         /\ ipcLast.ok
         /\ ipcLast.value = ipcLast.msg
         /\ ipcLast.consumed = 4 + Len(to_extend(ipcLast.msg))

\* C15 -- IPC frame cap: recv fails on a declared length above the cap
\* having read the length alone and left its buffer as it was, and send
\* never writes a frame whose payload is above the cap.
C15_FrameCap ==
   /\ (ipcLast.op = "recv" /\ ipcLast.declared > MAX_MESSAGE_LEN) =>
         /\ ~ipcLast.ok
         /\ ipcLast.consumed = 4
         /\ sbuf = ipcLast.buf_before
   /\ ipcLast.op = "send" => Len(ipcLast.bytes) - 4 <= MAX_MESSAGE_LEN

\* C16 -- Embedder lazy load: under every interleaving of concurrent
\* compute_hybrid / encode_query calls the model is loaded and stored at
\* most once; is_ready() is false before the first successful load and true
\* ever after; a call that starts after it performs no load; the computation
\* never runs without a model.
C16_LazyLoadOnce ==
   /\ loads <= 1
   /\ is_ready(model) <=> everReady
   /\ everReady <=> loads = 1
   /\ Cardinality(writer) <= 1
   /\ \A p \in Procs :
         /\ embLate[p] => embPc[p] \notin {"want_write", "loading"}
         /\ embPc[p] \in {"use", "computing"} => is_ready(model)

C16_Witness ==
   /\ loads = 1
   /\ \E p \in Procs : embLate[p] /\ embPc[p] = "computing"
   /\ \E p \in Procs : ~embLate[p] /\ embPc[p] = "computing" /\ embCalls[p] = 2

Occurrences(list, x) == Cardinality({i \in 1..Len(list) : list[i] = x})

ScoreDescending(list) ==
   \A i \in 1..Len(list) : \A j \in (i + 1)..Len(list) : list[i].score >= list[j].score

\* C18 -- Per-file limit: for every result list and every k,
\* apply_per_file_limit(results, k) returns a list in which no path appears
\* more than k times, whose elements are all drawn from the input, and which
\* is ordered by score descending.
C18_PerFileLimit ==
   rkOp = "apply_per_file_limit" =>
      /\ ~rkOut.panic
      /\ \A i \in 1..Len(rkOut.list) :
            /\ Cardinality({j \in 1..Len(rkOut.list) :
                              rkOut.list[j].path = rkOut.list[i].path}) <= rkK
            /\ Occurrences(rkOut.list, rkOut.list[i]) <= Occurrences(rkInput, rkOut.list[i])
      /\ ScoreDescending(rkOut.list)

Group(list, path, start_line) ==
   {i \in 1..Len(list) : list[i].path = path /\ list[i].start_line = start_line}

\* C19 -- Deduplication: deduplicate returns exactly one result for every
\* (path, start_line) pair of its input and nothing else; the result kept
\* for a pair is a member of the pair's group with the highest score of the
\* group.
C19_Deduplicate ==
   rkOp = "deduplicate" =>
      /\ ~rkOut.panic
      /\ \A i \in 1..Len(rkInput) :
            Cardinality(Group(rkOut.list, rkInput[i].path, rkInput[i].start_line)) = 1
      /\ \A o \in 1..Len(rkOut.list) :
            LET g == Group(rkInput, rkOut.list[o].path, rkOut.list[o].start_line)
            IN /\ \E i \in g : rkInput[i] = rkOut.list[o]
               /\ \A i \in g : rkInput[i].score <= rkOut.list[o].score

C19_Witness ==
   /\ rkOp = "deduplicate"
   /\ Len(rkInput) = 3
   /\ Len(rkOut.list) = 2
   /\ rkInput[1].path = rkInput[2].path
   /\ rkInput[1].start_line = rkInput[2].start_line
   /\ rkInput[1].score < rkInput[2].score
   /\ rkInput[2] \in {rkOut.list[1], rkOut.list[2]}

\* The paths of the model on which each path rule fires.
TestPaths == {PATH.test, PATH.spec, PATH.tests_json}

DocPaths == {PATH.readme, PATH.docs, PATH.tests_json}

\* C20 -- Structural boost composition: the score of every result is
\* multiplied by the product of the factors whose rule fires (5/4 for a
\* Function, Class, Interface, Method or TypeAlias; 17/20 for a test path;
\* 1/2 for a doc or config path), nothing else changes, a result matching no
\* rule keeps its score; a Function at src/x.test.ts with score 1.0 ends at
\* 1.0625.
C20_BoostComposition ==
   /\ rkOp = "apply_structural_boost" =>
         /\ Len(rkOut.list) = Len(rkInput)
         /\ \A i \in 1..Len(rkInput) :
               LET in == rkInput[i]
                   out == rkOut.list[i]
                   typed == in.chunk_type \in
                               {"Function", "Class", "Interface", "Method", "TypeAlias"}
                   test == in.path \in TestPaths
                   doc == in.path \in DocPaths
                   num == (IF typed THEN 5 ELSE 1) * (IF test THEN 17 ELSE 1)
                   den == (IF typed THEN 4 ELSE 1) * (IF test THEN 20 ELSE 1)
                             * (IF doc THEN 2 ELSE 1)
               IN /\ out.score * den = in.score * num
                  /\ out = [in EXCEPT !.score = out.score]
   /\ apply_structural_boost(<<[path |-> PATH.test, start_line |-> 1, score |-> ONE,
                                chunk_type |-> "Function"]>>)[1].score * 10000
         = 10625 * ONE

C20_Witness ==
   /\ rkOp = "apply_structural_boost"
   /\ Len(rkInput) = 2
   /\ rkInput[1].path = PATH.tests_json
   /\ rkInput[1].chunk_type = "TypeAlias"
   /\ rkInput[1].score = ONE
   /\ rkOut.list[1].score * 32 = 17 * ONE
   /\ rkInput[2].path = PATH.main
   /\ rkInput[2].chunk_type = "Block"
   /\ rkOut.list[2].score = rkInput[2].score

PathCount(list, path) == Cardinality({j \in 1..Len(list) : list[j].path = path})

\* C27 -- Meta implies store: in every state, a path to which the persisted
\* meta store maps a hash has records in the vector store, and all of them
\* carry that hash; and a sync skips a file as unchanged only while the
\* store has records for it.
C27_MetaImpliesStore ==
   /\ \A q \in Paths :
         PersistedHash(q) # NoHash =>
            /\ RowsOf(store, q) # {}
            /\ \A r \in RowsOf(store, q) : r.hash = PersistedHash(q)
   /\ \A p \in Procs :
         (sync[p].pc = "loop" /\ ~Head(sync[p].hash_results).needs_indexing) =>
            RowsOf(store, Head(sync[p].hash_results).path) # {}

\* The ids of the records of the store, one per stored copy.
IdCount(id) ==
   LET rows == {r \in DOMAIN store : r.id = id}
       RECURSIVE Sum(_)
       Sum(S) == IF S = {} THEN 0
                 ELSE LET r == CHOOSE x \in S : TRUE IN store[r] + Sum(S \ {r})
   IN Sum(rows)

\* C28 -- Record id uniqueness: with a single caller of initial_sync, no
\* two records of the vector store have the same id, after completed and
\* aborted runs and edits alike; and while a call holds the records of a
\* file in its embed queue, the store holds no record of that file.
C28_UniqueIds ==
   /\ \A r \in DOMAIN store : IdCount(r.id) = 1
   /\ \A p \in Procs :
         \A i \in 1..Len(sync[p].embed_queue) :
            RowsOf(store, sync[p].embed_queue[i].path) = {}

C28_Witness ==
   \E p \in Procs :
      /\ sync[p].pc = "done"
      /\ ~sync[p].dry_run
      /\ sync[p].n_delete >= 1
      /\ \E q \in sync[p].changed_files :
            /\ q \in sync[p].inserted
            /\ Cardinality(RowsOf(store, q)) >= 2

\* C29 -- Sync accounting: every successful return of initial_sync, dry-run
\* or not, has processed = indexed + skipped and processed <= the number of
\* files enumerated, and no progress callback invocation carries a smaller
\* processed or indexed value than the invocation before it.
C29_Accounting ==
   \A p \in Procs :
      /\ sync[p].monotone
      /\ sync[p].pc = "done" =>
            /\ sync[p].processed = sync[p].indexed + sync[p].skipped
            /\ sync[p].processed <= Len(sync[p].files)
            /\ sync[p].progress = SyncProgress(sync[p].processed, sync[p].indexed)

C29_Witness ==
   \E p \in Procs :
      /\ sync[p].pc = "done"
      /\ ~sync[p].dry_run
      /\ sync[p].indexed >= 1
      /\ sync[p].skipped >= 1
      /\ sync[p].processed < Len(sync[p].files)
      /\ sync[p].progress.indexed >= 1

\* C25 -- Meta store round trip: in every MetaStore state reached from load
\* through set_hash, set_meta, remove and delete_by_prefix, get_hash gives
\* for every path the hash most recently set for it (none when never set, or
\* removed since), all_paths yields exactly the paths that have a hash, each
\* once, and a load after a save gives the same get_hash for every path.
C25_MetaRoundTrip ==
   mtLast # "none" =>
      /\ \A p \in Paths : get_hash(mt, p) = mtExpect[p]
      /\ all_paths_iter(mt) = SetToBag({p \in Paths : mtExpect[p] # NoHash})
      /\ all_paths(mt) = {p \in Paths : mtExpect[p] # NoHash}

C25_Witness ==
   /\ mtLast = "reload"
   /\ \E p \in Paths : mt.files[p] # NoHash
   /\ \E p \in Paths : mt.hashes[p] # NoHash
   /\ \E p \in Paths : mtExpect[p] = NoHash
   /\ mt # MetaLoad(NoFile)

\* The rows of the byte string, whole rows only.
ByteRows(bytes, dim) ==
   [t \in 1..(Len(bytes) \div dim) |-> SubSeq(bytes, (t - 1) * dim + 1, t * dim)]

IsPaddingRow(r) == \A i \in 1..Len(r) : r[i] = 0

RECURSIVE DropPadding(_)
DropPadding(rows) ==
   IF rows = <<>> THEN <<>>
   ELSE IF IsPaddingRow(Head(rows)) THEN DropPadding(Tail(rows))
        ELSE <<Head(rows)>> \o DropPadding(Tail(rows))

Scored == cbOut.quantized # <<>> /\ cbOut.dequantized # <<>>

\* C24, as stated -- for every query, bytes, scale and dim,
\* max_sim_quantized gives the very value max_sim gives over the
\* dequantized document.
C24_QuantizedEqualsDequantized ==
   Scored => cbOut.quantized = cbOut.dequantized

\* C24, amended -- the two scores are the same expression over the same
\* rows and are equal whenever no operation rounds; under f32 rounding they
\* are equal when the dimension is one SIMD chunk.  In either arithmetic
\* rows whose bytes are all zero take part in no maximum, trailing bytes
\* that do not fill a row are ignored, and the score is 0 when every row is
\* padding.
C24_QuantizedMaxSim ==
   LET rows == ByteRows(cbBytes, cbDim)
       kept == RowMajor(DropPadding(rows))
   IN /\ (Scored /\ (cbBits = WideBits \/ cbDim = LANES)) =>
            cbOut.quantized = cbOut.dequantized
      /\ (cbOut.quantized # <<>> /\ cbOut.dequantized = <<>>) =>
            /\ cbOut.quantized[1] = max_sim_quantized(QueryMatrix, kept, cbScale, cbDim)
            /\ cbOut.quantized[1] =
                  max_sim_quantized(QueryMatrix, RowMajor(rows), cbScale, cbDim)
            /\ kept = <<>> => cbOut.quantized[1] = 0
      /\ cbOut.dequantized # <<>> =>
            /\ cbOut.dequantized[1] =
                  max_sim(QueryMatrix, dequantize_colbert(kept, cbScale, cbDim))
            /\ kept = <<>> => cbOut.dequantized[1] = 0
            /\ fl(cbScale) # 0 =>
                  cbOut.doc.data =
                     [j \in 1..Len(kept) |-> fl(as_i8(kept[j]) * fl(cbScale))]

C24_Witness ==
   /\ Scored
   /\ cbBits = Mantissa
   /\ cbDim = LANES
   /\ Len(cbQuery) = 2
   /\ Len(cbBytes) = 2 * cbDim
   /\ IsPaddingRow(ByteRows(cbBytes, cbDim)[1])
   /\ ~IsPaddingRow(ByteRows(cbBytes, cbDim)[2])
   /\ cbOut.quantized[1] # 0
   /\ cbOut.quantized = cbOut.dequantized

\* C21 -- Chunk size bounds: every chunk returned by Chunker::chunk and by
\* FallbackChunker::chunk has at most MAX_CHARS bytes of content and spans at
\* most MAX_LINES lines (end_line - start_line), also when a header line is
\* prepended to the sub-chunks of a definition and when a multi-byte character
\* lies at a split point.  split_if_too_big is the pass Chunker::chunk makes
\* over every raw chunk.
WithinLimits(c) ==
   /\ Len(c.content) <= MAX_CHARS
   /\ c.end_line - c.start_line <= MAX_LINES

C21_SizeBounds ==
   ckOp \in {"chunk", "fallback_chunk", "split_if_too_big"}
      => \A i \in 1..Len(ckOut) : WithinLimits(ckOut[i])

\* C30 -- Line ranges of byte-split chunks: for a chunk split by
\* split_by_chars, every sub-chunk's [start_line, end_line) lies inside the
\* line range of the original chunk, its start_line is the line on which its
\* content begins, and its content is a contiguous slice of the original
\* content.
LineOfByte(content, start_line, offset) ==
   start_line + Cardinality({i \in 1..offset : content[i] = NL})

\* The offsets at which piece lies in the content.
SliceOffsets(content, piece) ==
   {off \in 0..(Len(content) - Len(piece)) : Slice(content, off, off + Len(piece)) = piece}

InsideRange(original, c) ==
   /\ original.start_line <= c.start_line
   /\ c.start_line <= c.end_line
   /\ c.end_line <= original.end_line

BeginsOnStartLine(original, c) ==
   \E off \in SliceOffsets(original.content, c.content) :
      LineOfByte(original.content, original.start_line, off) = c.start_line

C30_ByteSplitLineRanges ==
   ckOp = "split_by_chars"
      => \A i \in 1..Len(ckOut) :
            /\ InsideRange(ckChunk, ckOut[i])
            /\ SliceOffsets(ckChunk.content, ckOut[i].content) # {}
            /\ BeginsOnStartLine(ckChunk, ckOut[i])

\* C26 -- Split coverage, as stated: when split_if_too_big splits a chunk of
\* more than MAX_LINES lines, every line of the chunk's content appears in
\* the content of at least one returned sub-chunk, the last lines included
\* when the final window is shorter than 3 lines and is skipped.
Appears(line, content) ==
   \E off \in 0..(Len(content) - Len(line)) :
      /\ Slice(content, off, off + Len(line)) = line
      /\ off = 0 \/ content[off] = NL
      /\ off + Len(line) = Len(content) \/ content[off + Len(line) + 1] = NL

SplitByLines ==
   /\ ckOp = "split_if_too_big"
   /\ Len(lines(ckChunk.content)) > MAX_LINES

Holds(original, k, line, c) ==
   /\ c.start_line <= original.start_line + (k - 1)
   /\ original.start_line + (k - 1) < c.end_line
   /\ Appears(line, c.content)

Squeeze(s) == SelectSeq(s, LAMBDA b : ~is_whitespace(b))

RECURSIVE Concat(_)
Concat(cs) == IF cs = <<>> THEN <<>> ELSE Head(cs).content \o Concat(Tail(cs))

C22_SortedChunks ==
   ckOp = "chunk"
      => \A i \in 1..(Len(ckOut) - 1) : ~ChunkBefore(ckOut[i + 1], ckOut[i])

\* C23 -- No-definition fallback: when a grammar is available for the file
\* and the parse holds no definition node, Chunker::chunk returns the chunks
\* of simple_chunk for the content, so that a file with a non-blank line
\* yields at least one chunk.
C23_NoDefinitionFallback ==
   ckOp = "chunk" /\ ckParse.language = "some" /\ ~SawDefinition(ckParse.children)
      => /\ ckOut = FlatSplit(simple_chunk(ckChunk.content))
         /\ trim(ckChunk.content) # <<>> => ckOut # <<>>

\* C17 -- Search result bound and order: search encodes the query before it
\* queries the store, asks the store for 2 * limit candidates, fails only
\* with the embedder's or the store's error, and returns at most limit
\* results, each a boosted candidate, ordered by boosted score descending,
\* with the store's status and progress; no path is cut down when
\* per_file_limit is 0, and no path appears more than per_file_limit times
\* otherwise.
C17_SearchBoundOrder ==
   /\ se.asked # NotAsked => se.encoded /\ se.asked = 2 * se.limit
   /\ se.pc = "done" => se.fail \in {"none", "encode", "store"}
   /\ (se.pc = "done" /\ se.fail = "none") =>
         LET out == se.response.results
             boosted == apply_structural_boost(se.store_response.results)
         IN /\ se.asked = 2 * se.limit
            /\ Len(se.store_response.results) <= 2 * se.limit
            /\ Len(out) <= se.limit
            /\ ScoreDescending(out)
            /\ \A i \in 1..Len(out) :
                  Occurrences(out, out[i]) <= Occurrences(boosted, out[i])
            /\ se.response.status = se.store_response.status
            /\ se.response.progress = se.store_response.progress
            /\ se.per_file_limit > 0 =>
                  \A i \in 1..Len(out) : PathCount(out, out[i].path) <= se.per_file_limit
            /\ se.per_file_limit = 0 =>
                  /\ Len(out) = (IF Len(boosted) < se.limit THEN Len(boosted) ELSE se.limit)
                  /\ \A i \in 1..Len(boosted) :
                        Occurrences(out, boosted[i]) < Occurrences(boosted, boosted[i]) =>
                           \A j \in 1..Len(out) : out[j].score >= boosted[i].score

C17_Witness ==
   /\ se.pc = "done"
   /\ se.fail = "none"
   /\ se.limit = 2
   /\ se.per_file_limit = 1
   /\ Len(se.store_response.results) = 3
   /\ Len(se.response.results) = 2
   /\ se.response.status = "Indexing"
   /\ se.response.results[1].path = se.store_response.results[3].path
   /\ se.store_response.results[1].score > se.store_response.results[3].score
   /\ se.store_response.results[1].path = se.store_response.results[2].path

====
